---- MODULE Spec2Model ----
(***************************************************************************)
(* Scouting-report analytics backend (Go).                                 *)
(*                                                                         *)
(* Part 1: grid.Client.GetTeamStatistics as a state machine: series fetch, *)
(* graduated window fallback, per-series detail fetch (one step per        *)
(* GetSeriesStats call), aggregation.                                      *)
(* Part 2: the pure functions of package services (CalculateConfidence,    *)
(* generateAlerts, ...), applied to inputs drawn from bounded sets.        *)
(*                                                                         *)
(* Dates are day numbers; a calendar month is taken as 30 days.  float64   *)
(* values are exact rationals [n, d] (d > 0); a float64 division by zero   *)
(* gives the IEEE results +Inf, -Inf or NaN.                               *)
(***************************************************************************)
EXTENDS Integers, Sequences, FiniteSets, TLC

VARIABLES
    provider,             \* SeriesSource: the team's series, most recent first
    detailSource,         \* SeriesStatsSource: series id -> detail outcome
    pc,                   \* position inside GetTeamStatistics
    timeWindow,           \* requested window (argument)
    seriesHistory,        \* result of GetTeamSeriesHistory
    filteredSeries,       \* series of the resolved window
    actualWindow,
    idx,                  \* loop index i of the detail loop
    totalKills, totalDeaths, totalGames,
    successfulDownloads,
    detailRequests,       \* series ids GetSeriesStats was called with, in order
    stats,                \* returned *models.TeamStats, or NoStats
    err,                  \* returned error, or NoError
    call,                 \* pure-function harness: the call made
    ret,                  \* pure-function harness: the value returned
    request,              \* GenerateScoutingReport: the arguments
    rpc,                  \* position of GenerateScoutingReport's own goroutine
    cache,                \* the shared cache: a set of [key, value] entries
    cachedFor,            \* history: the arguments of the call that set each key
    branch,               \* position of each of the four fetch goroutines
    outcome,              \* what each goroutine's service call returned
    mu,                   \* holder of the mutex, or Free
    comparison, trends1, trends2, metaCtx,
    errors,               \* the shared errors slice
    scoutingReport,       \* returned *models.ScoutingReport, or Nil
    rerr                  \* returned error, or Nil

statsVars == <<provider, detailSource, pc, timeWindow, seriesHistory,
               filteredSeries, actualWindow, idx, totalKills, totalDeaths,
               totalGames, successfulDownloads, detailRequests, stats, err>>
pureVars == <<call, ret>>
reportVars == <<request, rpc, cache, cachedFor, branch, outcome, mu, comparison,
                trends1, trends2, metaCtx, errors, scoutingReport, rerr>>
vars == <<provider, detailSource, pc, timeWindow, seriesHistory,
          filteredSeries, actualWindow, idx, totalKills, totalDeaths,
          totalGames, successfulDownloads, detailRequests, stats, err,
          call, ret, request, rpc, cache, cachedFor, branch, outcome, mu,
          comparison, trends1, trends2, metaCtx, errors, scoutingReport, rerr>>

(***************************************************************************)
(* Bounds of the model                                                     *)
(***************************************************************************)
MaxSeries == 4          \* longest history with freely chosen dates
MaxDetailSeries == 3    \* longest history with freely chosen detail outcomes
MaxLong == 11           \* longest history (exceeds the detail cap of 10)
MaxSample == 20         \* largest sample size and total given to CalculateConfidence
MaxMatches == 3         \* largest match count of a PeriodStats

(***************************************************************************)
(* Program constants                                                       *)
(***************************************************************************)
MinMatches == 3
DetailCap == 10
HistoryLimit == 50

LastWeek == "LAST_WEEK"
LastMonth == "LAST_MONTH"
Last3Months == "LAST_3_MONTHS"
Last6Months == "LAST_6_MONTHS"
LastYear == "LAST_YEAR"
TimeWindows == {LastWeek, LastMonth, Last3Months, Last6Months, LastYear}
\* a TimeWindow is a plain string: a caller can pass any other value
OtherWindow == "OTHER"

Now == 1000
\* dates a series can have; Now - 7 is exactly the LAST_WEEK cutoff
SeriesDates == {Now - 3, Now - 7, Now - 60, Now - 150, Now - 300, Now - 500}

NoStats == [kind |-> "none"]
NoError == [kind |-> "none"]
NoCall == [op |-> "none"]
Nil == [kind |-> "nil"]

Min(a, b) == IF a < b THEN a ELSE b

(***************************************************************************)
(* Helpers of GetTeamStatistics                                            *)
(***************************************************************************)
\* mutation: the LAST_MONTH chain is a copy of the LAST_WEEK chain
getWindowFallbackSequenceCopied(requested) ==
    CASE requested = LastWeek    -> <<LastWeek, LastMonth, Last3Months>>
      [] requested = LastMonth   -> <<LastWeek, LastMonth, Last3Months>>
      [] requested = Last3Months -> <<Last3Months, Last6Months, LastYear>>
      [] requested = Last6Months -> <<Last6Months, LastYear>>
      [] requested = LastYear    -> <<LastYear>>
      [] OTHER                   -> <<Last3Months>>

getWindowFallbackSequence(requested) ==
    CASE requested = LastWeek    -> <<LastWeek, LastMonth, Last3Months>>
      [] requested = LastMonth   -> <<LastMonth, Last3Months, Last6Months>>
      [] requested = Last3Months -> <<Last3Months, Last6Months, LastYear>>
      [] requested = Last6Months -> <<Last6Months, LastYear>>
      [] requested = LastYear    -> <<LastYear>>
      [] OTHER                   -> <<Last3Months>>

calculateCutoffDate(now, window) ==
    CASE window = LastWeek    -> now - 7
      [] window = LastMonth   -> now - 30
      [] window = Last3Months -> now - 90
      [] window = Last6Months -> now - 180
      [] window = LastYear    -> now - 365
      [] OTHER                -> now - 90

\* inner loop of step 2: the series dated strictly after the cutoff
FilterByWindow(history, window) ==
    SelectSeq(history, LAMBDA s : s.date > calculateCutoffDate(Now, window))

\* mutation: the loop lacks its break and runs through the whole sequence
RECURSIVE ResolveFromNoBreak(_, _, _, _)
ResolveFromNoBreak(history, requested, seq, k) ==
    LET filtered == FilterByWindow(history, seq[k])
    IN  IF k = Len(seq)
          THEN [filtered |-> filtered,
                actual |-> IF Len(filtered) >= MinMatches THEN seq[k] ELSE requested]
          ELSE ResolveFromNoBreak(history, requested, seq, k + 1)

\* outer loop of step 2, from position k of the fallback sequence
RECURSIVE ResolveFrom(_, _, _, _)
ResolveFrom(history, requested, seq, k) ==
    LET filtered == FilterByWindow(history, seq[k])
    IN  IF Len(filtered) >= MinMatches
          THEN [filtered |-> filtered, actual |-> seq[k]]
          ELSE IF k = Len(seq)
                 THEN [filtered |-> filtered, actual |-> requested]
                 ELSE ResolveFrom(history, requested, seq, k + 1)

\* mutation: the date of the last (oldest) fetched series
LastMatchOfOldest(history) == history[Len(history)].date

\* LastMatch of the InsufficientDataError: the date of the first fetched series
LastMatchOf(history) == history[1].date

ResolveWindowOf(history, requested) ==
    ResolveFrom(history, requested, getWindowFallbackSequence(requested), 1)

RECURSIVE CountWins(_, _)
CountWins(series, k) ==
    IF k = 0 THEN 0
    ELSE CountWins(series, k - 1) + (IF series[k].won THEN 1 ELSE 0)

\* streak loop: consecutive series, from the first, with the outcome of the first
RECURSIVE StreakFrom(_, _, _)
StreakFrom(series, won, k) ==
    IF k > Len(series) THEN 0
    ELSE IF series[k].won = won THEN 1 + StreakFrom(series, won, k + 1)
    ELSE 0

\* mutation: the streak loop lacks its break and counts every series with
\* the outcome of the first
CurrentStreakOfAllMatching(series) ==
    IF Len(series) > 0
      THEN [type  |-> IF series[1].won THEN "win" ELSE "loss",
            count |-> Len(SelectSeq(series, LAMBDA s : s.won = series[1].won))]
      ELSE [type |-> "loss", count |-> 0]

CurrentStreakOf(series) ==
    IF Len(series) > 0
      THEN [type  |-> IF series[1].won THEN "win" ELSE "loss",
            count |-> StreakFrom(series, series[1].won, 1)]
      ELSE [type |-> "loss", count |-> 0]

(***************************************************************************)
(* The external sources                                                    *)
(***************************************************************************)
DetailError == [kind |-> "error"]       \* GetSeriesStats returns an error
DetailNoMatch == [kind |-> "nomatch"]   \* no team of the payload matches the name
DetailOk(k, d, g) == [kind |-> "ok", kills |-> k, deaths |-> d, games |-> g]
DetailOutcomes == {DetailError, DetailNoMatch, DetailOk(3, 2, 2), DetailOk(2, 0, 1)}

MakeHistory(n, dates, won) ==
    [k \in 1..n |-> [id |-> k, date |-> dates[k], won |-> won[k]]]

SortedDesc(n, dates) == \A k \in 1..(n - 1) : dates[k] >= dates[k + 1]

\* histories with freely chosen dates and outcomes; the detail fetch
\* succeeds for all of their series or for none
InitDates ==
    \E n \in 0..MaxSeries :
      \E dates \in [1..n -> SeriesDates], won \in [1..n -> BOOLEAN],
         o \in {DetailOk(3, 2, 2), DetailError} :
        /\ SortedDesc(n, dates)
        /\ provider = MakeHistory(n, dates, won)
        /\ detailSource = [k \in 1..n |-> o]

\* recent histories with freely chosen outcomes and detail outcomes
InitDetails ==
    \E n \in 1..MaxDetailSeries :
      \E won \in [1..n -> BOOLEAN], det \in [1..n -> DetailOutcomes] :
        /\ provider = MakeHistory(n, [k \in 1..n |-> Now - 3], won)
        /\ detailSource = det

\* recent histories longer than the detail cap
InitLong ==
    \E n \in (DetailCap + 1)..MaxLong :
      \E k0 \in 0..n, first \in BOOLEAN, a \in 1..n, b \in {1, n} :
        /\ provider = MakeHistory(n, [k \in 1..n |-> Now - 3],
                                  [k \in 1..n |-> IF k <= k0 THEN first ELSE ~first])
        /\ detailSource = [k \in 1..n |->
                             IF k = a THEN DetailError
                             ELSE IF k = b THEN DetailNoMatch
                             ELSE DetailOk(3, 2, 2)]

InitCall ==
    /\ pc = "start"
    /\ timeWindow = OtherWindow
    /\ seriesHistory = <<>>
    /\ filteredSeries = <<>>
    /\ actualWindow = OtherWindow
    /\ idx = 0
    /\ totalKills = 0
    /\ totalDeaths = 0
    /\ totalGames = 0
    /\ successfulDownloads = 0
    /\ detailRequests = <<>>
    /\ stats = NoStats
    /\ err = NoError

InitPure ==
    /\ call = NoCall
    /\ ret = NoCall

\* the four fetch goroutines of GenerateScoutingReport
Branches == {"comparison", "trends1", "trends2", "meta"}
Free == "free"
NoRequest == [kind |-> "none"]

\* no scouting report is being generated
InitNoRequest ==
    /\ request = NoRequest
    /\ rpc = "idle"
    /\ branch = [b \in Branches |-> "idle"]
    /\ outcome = [b \in Branches |-> Nil]
    /\ mu = Free
    /\ comparison = Nil
    /\ trends1 = Nil
    /\ trends2 = Nil
    /\ metaCtx = Nil
    /\ errors = <<>>
    /\ scoutingReport = Nil
    /\ rerr = Nil

\* nor is anything cached
InitNoReport ==
    /\ InitNoRequest
    /\ cache = {}
    /\ cachedFor = {}

Init ==
    /\ InitDates \/ InitDetails \/ InitLong
    /\ InitCall
    /\ InitPure
    /\ InitNoReport

(***************************************************************************)
(* GetTeamStatistics                                                       *)
(***************************************************************************)
Fail(e) ==
    /\ err' = e
    /\ pc' = "done"

\* entry, tournament auto-selection and step 1 (GetTeamSeriesHistory)
FetchHistory ==
    /\ pc = "start"
    /\ \E w \in TimeWindows \cup {OtherWindow}, configured \in BOOLEAN,
          fetchOk \in BOOLEAN :
         /\ timeWindow' = w
         /\ actualWindow' = w
         /\ IF ~configured
              THEN /\ Fail([kind |-> "NoTournaments"])
                   /\ UNCHANGED seriesHistory
              ELSE IF ~fetchOk
                THEN /\ Fail([kind |-> "FetchFailed"])
                     /\ UNCHANGED seriesHistory
                ELSE IF Len(provider) = 0
                  THEN /\ Fail([kind |-> "TeamNotFound"])
                       /\ UNCHANGED seriesHistory
                  ELSE /\ seriesHistory' = SubSeq(provider, 1, Min(Len(provider), HistoryLimit))
                       /\ pc' = "resolve"
                       /\ UNCHANGED err
    /\ UNCHANGED <<provider, detailSource, filteredSeries, idx, totalKills,
                   totalDeaths, totalGames, successfulDownloads,
                   detailRequests, stats, call, ret, reportVars>>

\* step 2: graduated fallback, and the InsufficientData return
ResolveWindow ==
    /\ pc = "resolve"
    /\ LET r == ResolveWindowOf(seriesHistory, timeWindow)
       IN  /\ filteredSeries' = r.filtered
           /\ actualWindow' = r.actual
           /\ IF Len(r.filtered) = 0
                THEN Fail([kind |-> "InsufficientData",
                           reason |-> "no recent matches found",
                           lastMatch |-> LastMatchOf(seriesHistory)])
                ELSE /\ pc' = "detail"
                     /\ UNCHANGED err
    /\ UNCHANGED <<provider, detailSource, timeWindow, seriesHistory, idx,
                   totalKills, totalDeaths, totalGames, successfulDownloads,
                   detailRequests, stats, call, ret, reportVars>>

\* mutation: a failed or unmatched detail fetch aborts the aggregation
FetchDetailAbort ==
    /\ pc = "detail"
    /\ idx < Len(filteredSeries)
    /\ idx < DetailCap
    /\ LET series == filteredSeries[idx + 1]
           resp == detailSource[series.id]
       IN  /\ detailRequests' = Append(detailRequests, series.id)
           /\ IF resp.kind = "ok"
                THEN /\ totalKills' = totalKills + resp.kills
                     /\ totalDeaths' = totalDeaths + resp.deaths
                     /\ totalGames' = totalGames + resp.games
                     /\ successfulDownloads' = successfulDownloads + 1
                     /\ UNCHANGED <<pc, err>>
                ELSE /\ Fail([kind |-> "NoDetailedStats"])
                     /\ UNCHANGED <<totalKills, totalDeaths, totalGames,
                                    successfulDownloads>>
    /\ idx' = idx + 1
    /\ UNCHANGED <<provider, detailSource, timeWindow, seriesHistory,
                   filteredSeries, actualWindow, stats, call, ret, reportVars>>

\* step 3: one iteration of the detail loop (one GetSeriesStats call)
FetchDetail ==
    /\ pc = "detail"
    /\ idx < Len(filteredSeries)
    /\ idx < DetailCap
    /\ LET series == filteredSeries[idx + 1]
           resp == detailSource[series.id]
       IN  /\ detailRequests' = Append(detailRequests, series.id)
           /\ IF resp.kind = "ok"
                THEN /\ totalKills' = totalKills + resp.kills
                     /\ totalDeaths' = totalDeaths + resp.deaths
                     /\ totalGames' = totalGames + resp.games
                     /\ successfulDownloads' = successfulDownloads + 1
                ELSE UNCHANGED <<totalKills, totalDeaths, totalGames,
                                 successfulDownloads>>
    /\ idx' = idx + 1
    /\ UNCHANGED <<provider, detailSource, pc, timeWindow, seriesHistory,
                   filteredSeries, actualWindow, stats, err, call, ret, reportVars>>

\* mutation: the win rate is taken over the series with detail stats
BuildStatsDetailDenominator ==
    LET totalMatches == Len(filteredSeries)
    IN  [kind |-> "stats",
         WinRate |-> [n |-> CountWins(filteredSeries, Min(totalMatches, successfulDownloads)),
                      d |-> successfulDownloads],
         MatchesPlayed |-> totalMatches,
         Kills |-> totalKills,
         KillsAvg |-> [n |-> totalKills, d |-> totalGames],
         Deaths |-> totalDeaths,
         DeathsAvg |-> [n |-> totalDeaths, d |-> totalGames],
         KDRatio |-> [n |-> totalKills, d |-> totalDeaths],
         CurrentStreak |-> CurrentStreakOf(filteredSeries),
         SampleSize |-> totalMatches,
         ActualTimeWindow |-> actualWindow]

\* the TeamStats value built at the end of GetTeamStatistics
BuildStats ==
    LET totalMatches == Len(filteredSeries)
    IN  [kind |-> "stats",
         WinRate |-> [n |-> CountWins(filteredSeries, totalMatches), d |-> totalMatches],
         MatchesPlayed |-> totalMatches,
         Kills |-> totalKills,
         KillsAvg |-> [n |-> totalKills, d |-> totalGames],
         Deaths |-> totalDeaths,
         DeathsAvg |-> [n |-> totalDeaths, d |-> totalGames],
         KDRatio |-> [n |-> totalKills, d |-> totalDeaths],
         CurrentStreak |-> CurrentStreakOf(filteredSeries),
         SampleSize |-> totalMatches,
         ActualTimeWindow |-> actualWindow]

\* after the detail loop: the checks, win rate, K/D, streak and the return
Aggregate ==
    /\ pc = "detail"
    /\ idx >= Len(filteredSeries) \/ idx >= DetailCap
    /\ IF successfulDownloads = 0
         THEN /\ Fail([kind |-> "NoDetailedStats"])
              /\ UNCHANGED stats
         ELSE IF totalGames > 0 /\ totalDeaths > 0
           THEN /\ stats' = BuildStats
                /\ pc' = "done"
                /\ UNCHANGED err
           ELSE /\ Fail([kind |-> "InsufficientDetailedStats"])
                /\ UNCHANGED stats
    /\ UNCHANGED <<provider, detailSource, timeWindow, seriesHistory,
                   filteredSeries, actualWindow, idx, totalKills, totalDeaths,
                   totalGames, successfulDownloads, detailRequests, call, ret, reportVars>>

Next ==
    \/ FetchHistory
    \/ ResolveWindow
    \/ FetchDetail
    \/ Aggregate

Spec == Init /\ [][Next]_vars

(***************************************************************************)
(* float64 arithmetic: finite values are exact rationals n/d with d > 0    *)
(***************************************************************************)
Fin(n, d) == [k |-> "fin", n |-> n, d |-> d]
PosInf == [k |-> "+Inf"]
NegInf == [k |-> "-Inf"]
NaN == [k |-> "NaN"]

Abs(x) == IF x < 0 THEN -x ELSE x

\* (a - b) / b for rationals a, b, as float64 computes it
RelChange(a, b) ==
    LET num == a.n * b.d - b.n * a.d     \* a - b = num / (a.d * b.d)
    IN  IF b.n = 0
          THEN IF num = 0 THEN NaN ELSE IF num > 0 THEN PosInf ELSE NegInf
          ELSE IF b.n > 0 THEN Fin(num, a.d * b.n) ELSE Fin(-num, -(a.d * b.n))

Times100(x) == IF x.k = "fin" THEN Fin(100 * x.n, x.d) ELSE x

\* math.Abs
FAbs(x) ==
    CASE x.k = "fin"  -> Fin(Abs(x.n), x.d)
      [] x.k = "-Inf" -> PosInf
      [] OTHER        -> x

\* x >= c and x < 0 for a float x and an integer c; false for NaN
FGeq(x, c) ==
    CASE x.k = "fin"  -> x.n >= c * x.d
      [] x.k = "+Inf" -> TRUE
      [] OTHER        -> FALSE

FNeg(x) ==
    CASE x.k = "fin"  -> x.n < 0
      [] x.k = "-Inf" -> TRUE
      [] OTHER        -> FALSE

\* fmt "%.0f" of a non-negative float: nearest integer, ties to even
Format0(x) ==
    IF x.k = "fin"
      THEN LET q == x.n \div x.d
               r == x.n % x.d
           IN  IF 2 * r < x.d THEN q
               ELSE IF 2 * r > x.d THEN q + 1
               ELSE IF q % 2 = 0 THEN q ELSE q + 1
      ELSE x.k

(***************************************************************************)
(* services: CalculateConfidence                                           *)
(***************************************************************************)
ConfidenceHigh == "HIGH"
ConfidenceMedium == "MEDIUM"
ConfidenceLow == "LOW"

formatTimeWindow(tw) ==
    CASE tw = LastWeek    -> "over the last week"
      [] tw = LastMonth   -> "over the last month"
      [] tw = Last3Months -> "over the last 3 months"
      [] tw = Last6Months -> "over the last 6 months"
      [] tw = LastYear    -> "over the last year"
      [] OTHER            -> "in the selected time period"

\* mutation: the limited-history branch repeats the established thresholds
ConfidenceBandOneTable(sampleSize, totalTeamMatches) ==
    IF totalTeamMatches >= 18
      THEN IF sampleSize >= 18 THEN [level |-> ConfidenceHigh, score |-> 95]
           ELSE IF sampleSize >= 7 THEN [level |-> ConfidenceMedium, score |-> 70]
           ELSE [level |-> ConfidenceLow, score |-> 40]
      ELSE IF sampleSize >= 18 THEN [level |-> ConfidenceHigh, score |-> 90]
           ELSE IF sampleSize >= 7 THEN [level |-> ConfidenceMedium, score |-> 60]
           ELSE [level |-> ConfidenceLow, score |-> 30]

\* mutation: the MEDIUM comparison of the established branch is flipped
ConfidenceBandFlipped(sampleSize, totalTeamMatches) ==
    IF totalTeamMatches >= 18
      THEN IF sampleSize >= 18 THEN [level |-> ConfidenceHigh, score |-> 95]
           ELSE IF sampleSize <= 7 THEN [level |-> ConfidenceMedium, score |-> 70]
           ELSE [level |-> ConfidenceLow, score |-> 40]
      ELSE IF sampleSize >= 15 THEN [level |-> ConfidenceHigh, score |-> 90]
           ELSE IF sampleSize >= 5 THEN [level |-> ConfidenceMedium, score |-> 60]
           ELSE [level |-> ConfidenceLow, score |-> 30]

\* the level and score chosen by the threshold cascade
ConfidenceBand(sampleSize, totalTeamMatches) ==
    IF totalTeamMatches >= 18
      THEN IF sampleSize >= 18 THEN [level |-> ConfidenceHigh, score |-> 95]
           ELSE IF sampleSize >= 7 THEN [level |-> ConfidenceMedium, score |-> 70]
           ELSE [level |-> ConfidenceLow, score |-> 40]
      ELSE IF sampleSize >= 15 THEN [level |-> ConfidenceHigh, score |-> 90]
           ELSE IF sampleSize >= 5 THEN [level |-> ConfidenceMedium, score |-> 60]
           ELSE [level |-> ConfidenceLow, score |-> 30]

ConfidenceSuffix(level) ==
    CASE level = ConfidenceHigh   -> " - highly reliable predictions"
      [] level = ConfidenceMedium -> " - moderately reliable predictions"
      [] level = ConfidenceLow    -> " - limited data, predictions less reliable"
      [] OTHER                    -> ""

CalculateConfidence(sampleSize, totalTeamMatches, tw) ==
    LET band == ConfidenceBand(sampleSize, totalTeamMatches)
        base == IF sampleSize = totalTeamMatches
                  THEN <<"Based on all %d matches available %s",
                         sampleSize, formatTimeWindow(tw)>>
                  ELSE <<"Based on %d of %d total matches %s",
                         sampleSize, totalTeamMatches, formatTimeWindow(tw)>>
    IN  [Level |-> band.level,
         SampleSize |-> sampleSize,
         Reasoning |-> Append(base, ConfidenceSuffix(band.level)),
         ReliabilityScore |-> band.score]

(***************************************************************************)
(* services: TrendsService.generateAlerts                                  *)
(***************************************************************************)
AlertHigh == "HIGH"
AlertMedium == "MEDIUM"
AlertLow == "LOW"
AlertPositiveShift == "POSITIVE_SHIFT"
AlertNegativeShift == "NEGATIVE_SHIFT"
AlertPlaystyleChange == "PLAYSTYLE_CHANGE"
AlertConsistency == "CONSISTENCY"

\* mutation: the HIGH threshold is exclusive
determineSeverityExclusive(changePct) ==
    IF FGeq(changePct, 25) /\ ~(changePct.k = "fin" /\ changePct.n = 25 * changePct.d)
      THEN AlertHigh
    ELSE IF FGeq(changePct, 15) THEN AlertMedium
    ELSE AlertLow

determineSeverity(changePct) ==
    IF FGeq(changePct, 25) THEN AlertHigh
    ELSE IF FGeq(changePct, 15) THEN AlertMedium
    ELSE AlertLow

InsufficientRecentAlert(recent) ==
    [Type |-> AlertConsistency,
     Severity |-> AlertLow,
     Message |-> <<"Insufficient recent data for trend analysis">>,
     Context |-> <<"Only %d recent match(es) available", recent.Matches>>]

\* the win-rate rule: the alerts it appends
WinRateAlerts(overall, recent) ==
    LET winRateChangePct == Times100(RelChange(recent.WinRate, overall.WinRate))
    IN  IF FGeq(FAbs(winRateChangePct), 15)
          THEN LET negative == FNeg(winRateChangePct)
               IN  <<[Type |-> IF negative THEN AlertNegativeShift ELSE AlertPositiveShift,
                      Severity |-> determineSeverity(FAbs(winRateChangePct)),
                      Message |-> <<"Win rate %s by %.0f%% in recent matches",
                                    IF negative THEN "decreased" ELSE "increased",
                                    Format0(FAbs(winRateChangePct))>>,
                      Context |-> IF negative
                                    THEN <<"Team is underperforming in recent matches">>
                                    ELSE <<"Team is performing significantly better recently">>]>>
          ELSE <<>>

\* the K/D rule: the alerts it appends
KDAlerts(overall, recent) ==
    LET kdChangePct == Times100(RelChange(recent.KDRatio, overall.KDRatio))
    IN  IF FGeq(FAbs(kdChangePct), 10)
          THEN LET negative == FNeg(kdChangePct)
               IN  <<[Type |-> AlertPlaystyleChange,
                      Severity |-> determineSeverity(FAbs(kdChangePct)),
                      Message |-> <<"K/D ratio %s by %.0f%%",
                                    IF negative THEN "declined" ELSE "improved",
                                    Format0(FAbs(kdChangePct))>>,
                      Context |-> IF negative
                                    THEN <<"Less efficient or more deaths recently">>
                                    ELSE <<"More aggressive or efficient plays">>]>>
          ELSE <<>>

ConsistentAlert ==
    [Type |-> AlertConsistency,
     Severity |-> AlertLow,
     Message |-> <<"Performance remains consistent">>,
     Context |-> <<"No significant changes detected in recent matches">>]

\* mutation: the small-sample branch lacks its return
generateAlertsFallThrough(overall, recent) ==
    LET first == IF recent.Matches < 2 THEN <<InsufficientRecentAlert(recent)>> ELSE <<>>
        alerts == first \o WinRateAlerts(overall, recent) \o KDAlerts(overall, recent)
    IN  IF Len(alerts) = 0 /\ recent.Matches >= 3
          THEN Append(alerts, ConsistentAlert)
          ELSE alerts

generateAlerts(overall, recent) ==
    IF recent.Matches < 2
      THEN <<InsufficientRecentAlert(recent)>>
      ELSE LET alerts == WinRateAlerts(overall, recent) \o KDAlerts(overall, recent)
           IN  IF Len(alerts) = 0 /\ recent.Matches >= 3
                 THEN Append(alerts, ConsistentAlert)
                 ELSE alerts

(***************************************************************************)
(* The pure functions applied to inputs drawn from bounded sets            *)
(***************************************************************************)
Rat(n, d) == [n |-> n, d |-> d]

\* win rates; 17/64 and 23/64 against 5/16 lie exactly on the 15% threshold,
\* 5/16 against 1/4 and 3/8 against 1/2 on the 25% threshold; on all pairs of
\* this set float64 arithmetic and exact arithmetic give the same alerts
WinRateValues ==
    {Rat(0, 1), Rat(1, 4), Rat(17, 64), Rat(5, 16), Rat(23, 64), Rat(3, 8),
     Rat(1, 2), Rat(29, 50), Rat(3, 4), Rat(1, 1)}

\* K/D ratios; 9/8, 11/8 and 25/16 against 5/4 lie on the 10% and 25% thresholds
KDValues == {Rat(0, 1), Rat(1, 1), Rat(9, 8), Rat(5, 4), Rat(11, 8), Rat(25, 16)}

PeriodStatsOf(tw, wr, kd, m) ==
    [TimeWindow |-> tw, WinRate |-> wr, KDRatio |-> kd, Matches |-> m]

\* the stats machine at rest, without a team
InitIdle ==
    /\ provider = <<>>
    /\ detailSource = <<>>
    /\ InitCall

InitConfidence == InitIdle /\ InitPure /\ InitNoReport

CallCalculateConfidence ==
    /\ call = NoCall
    /\ \E s \in 0..MaxSample, t \in 0..MaxSample, w \in TimeWindows \cup {OtherWindow} :
         /\ call' = [op |-> "CalculateConfidence", sampleSize |-> s,
                     totalTeamMatches |-> t, timeWindow |-> w]
         /\ ret' = CalculateConfidence(s, t, w)
    /\ UNCHANGED <<statsVars, reportVars>>

SpecConfidence == InitConfidence /\ [][CallCalculateConfidence]_vars

InitAlerts == InitIdle /\ InitPure /\ InitNoReport

CallGenerateAlerts ==
    /\ call = NoCall
    /\ \E owr \in WinRateValues, rwr \in WinRateValues,
          okd \in KDValues, rkd \in KDValues, m \in 0..MaxMatches :
         LET overall == PeriodStatsOf(Last3Months, owr, okd, MaxMatches)
             recent == PeriodStatsOf(LastWeek, rwr, rkd, m)
         IN  /\ call' = [op |-> "generateAlerts", overall |-> overall, recent |-> recent]
             /\ ret' = generateAlerts(overall, recent)
    /\ UNCHANGED <<statsVars, reportVars>>

SpecAlerts == InitAlerts /\ [][CallGenerateAlerts]_vars

(***************************************************************************)
(* services: ComparisonService.calculateAdvantages                         *)
(***************************************************************************)
MaxStreak == 3

\* a - b for rationals with positive denominators
Diff(a, b) == Rat(a.n * b.d - b.n * a.d, a.d * b.d)

\* x >= n/d and x <= -(n/d) for a rational x and a positive constant n/d
RatGeq(x, n, d) == x.n * d >= n * x.d
RatLeqNeg(x, n, d) == x.n * d <= -(n * x.d)

\* fmt "%.0f" of 100 * |x| and fmt "%.1f" of |x|, the latter in tenths
FormatPct(x) == Format0(Fin(100 * Abs(x.n), x.d))
FormatTenths(x) == Format0(Fin(10 * Abs(x.n), x.d))

NoAdvantages == [Team1 |-> <<>>, Team2 |-> <<>>]

WinRateAdvantageExclusive(wrDiff) ==
    IF wrDiff.n * 20 > wrDiff.d
      THEN [Team1 |-> << <<"Higher win rate (+%.0f%%)", FormatPct(wrDiff)>> >>,
            Team2 |-> <<>>]
    ELSE IF -(wrDiff.n * 20) > wrDiff.d
      THEN [Team1 |-> <<>>,
            Team2 |-> << <<"Higher win rate (+%.0f%%)", FormatPct(wrDiff)>> >>]
    ELSE NoAdvantages

WinRateAdvantage(wrDiff) ==
    IF RatGeq(wrDiff, 1, 20)
      THEN [Team1 |-> << <<"Higher win rate (+%.0f%%)", FormatPct(wrDiff)>> >>,
            Team2 |-> <<>>]
    ELSE IF RatLeqNeg(wrDiff, 1, 20)
      THEN [Team1 |-> <<>>,
            Team2 |-> << <<"Higher win rate (+%.0f%%)", FormatPct(wrDiff)>> >>]
    ELSE NoAdvantages

KDAdvantage(kdDiff) ==
    IF RatGeq(kdDiff, 1, 10)
      THEN [Team1 |-> << <<"Better K/D (+%.1f)", FormatTenths(kdDiff)>> >>,
            Team2 |-> <<>>]
    ELSE IF RatLeqNeg(kdDiff, 1, 10)
      THEN [Team1 |-> <<>>,
            Team2 |-> << <<"Better K/D (+%.1f)", FormatTenths(kdDiff)>> >>]
    ELSE NoAdvantages

\* mutation: the longer streak wins, whatever the other streak's type
StreakAdvantageByCount(s1, s2) ==
    IF s1.type = "win" /\ s1.count > s2.count
      THEN [Team1 |-> << <<"Stronger win streak">> >>, Team2 |-> <<>>]
    ELSE IF s2.type = "win" /\ s2.count > s1.count
      THEN [Team1 |-> <<>>, Team2 |-> << <<"Stronger win streak">> >>]
    ELSE NoAdvantages

StreakAdvantage(s1, s2) ==
    IF s1.type = "win" /\ (s2.type # "win" \/ s1.count > s2.count)
      THEN [Team1 |-> << <<"Stronger win streak">> >>, Team2 |-> <<>>]
    ELSE IF s2.type = "win" /\ (s1.type # "win" \/ s2.count > s1.count)
      THEN [Team1 |-> <<>>, Team2 |-> << <<"Stronger win streak">> >>]
    ELSE NoAdvantages

calculateAdvantages(report) ==
    LET wr == WinRateAdvantage(Diff(report.Team1.Stats.WinRate,
                                    report.Team2.Stats.WinRate))
        kd == KDAdvantage(Diff(report.Team1.Stats.KDRatio,
                               report.Team2.Stats.KDRatio))
        st == StreakAdvantage(report.Team1.Stats.CurrentStreak,
                              report.Team2.Stats.CurrentStreak)
    IN  [Team1 |-> wr.Team1 \o kd.Team1 \o st.Team1,
         Team2 |-> wr.Team2 \o kd.Team2 \o st.Team2]

\* win rates; 1/20 against 0, 11/20 against 1/2 and 61/100 lie on or next to
\* the 0.05 threshold, 13/20 against 11/20 is ten points apart; on all pairs
\* of this set float64 arithmetic and exact arithmetic give the same advantages
AdvWinRates ==
    {Rat(0, 1), Rat(1, 20), Rat(1, 2), Rat(11, 20), Rat(61, 100), Rat(13, 20),
     Rat(4, 5)}

\* K/D ratios; 11/10 against 1 lies on the 0.1 threshold, 17/16 inside it
AdvKDValues == {Rat(1, 1), Rat(17, 16), Rat(11, 10), Rat(3, 2)}

Streaks == [type : {"win", "loss"}, count : 1..MaxStreak]

ComparisonStatsOf(wr, kd, streak) ==
    [WinRate |-> wr, KDRatio |-> kd, CurrentStreak |-> streak]

InitAdvantages == InitIdle /\ InitPure /\ InitNoReport

CallCalculateAdvantages ==
    /\ call = NoCall
    /\ \E wr1 \in AdvWinRates, wr2 \in AdvWinRates,
          kd1 \in AdvKDValues, kd2 \in AdvKDValues,
          s1 \in Streaks, s2 \in Streaks :
         LET report == [Team1 |-> [Stats |-> ComparisonStatsOf(wr1, kd1, s1)],
                        Team2 |-> [Stats |-> ComparisonStatsOf(wr2, kd2, s2)]]
         IN  /\ call' = [op |-> "calculateAdvantages", report |-> report]
             /\ ret' = calculateAdvantages(report)
    /\ UNCHANGED <<statsVars, reportVars>>

SpecAdvantages == InitAdvantages /\ [][CallCalculateAdvantages]_vars

(***************************************************************************)
(* Results and errors of the service calls                                 *)
(***************************************************************************)
\* an error value: the messages of its fmt.Errorf("...: %w") wrappers, outermost
\* first, around a root error; errors.As and errors.Is see the root
ErrTeamNotFound == "TeamNotFound"           \* *grid.TeamNotFoundError
ErrInsufficientData == "InsufficientData"   \* *grid.InsufficientDataError
ErrDeadlineExceeded == "DeadlineExceeded"   \* context.DeadlineExceeded
ErrOther == "Other"                         \* any other error
StatsErrorRoots == {ErrTeamNotFound, ErrInsufficientData, ErrDeadlineExceeded, ErrOther}

ErrorOf(root) == [kind |-> "error", root |-> root, chain |-> <<>>]
Wrap(msg, e) == [e EXCEPT !.chain = <<msg>> \o @]
IsError(r) == r.kind = "error"

(***************************************************************************)
(* services: GenerateWarnings, ComparisonService.CompareTeams              *)
(***************************************************************************)
GenerateWarnings(team1Name, team1Confidence, team2Name, team2Confidence) ==
    LET low(name, c) ==
            IF c.Level = ConfidenceLow
              THEN << <<"%s has low sample size (%d matches) - predictions less reliable",
                        name, c.SampleSize>> >>
              ELSE <<>>
        small(name, c) ==
            IF c.SampleSize < 3
              THEN << <<"%s has insufficient data (<%d matches) - comparison may not be meaningful",
                        name, 3>> >>
              ELSE <<>>
        mismatch ==
            IF \/ team1Confidence.Level = ConfidenceHigh /\ team2Confidence.Level = ConfidenceLow
               \/ team2Confidence.Level = ConfidenceHigh /\ team1Confidence.Level = ConfidenceLow
              THEN << <<"Teams have significantly different data quality - comparison may be skewed">> >>
              ELSE <<>>
        \* ratio > 3.0 || ratio < 0.33 with ratio = sample1 / sample2
        disparity ==
            IF /\ team1Confidence.SampleSize > 0
               /\ team2Confidence.SampleSize > 0
               /\ \/ team1Confidence.SampleSize > 3 * team2Confidence.SampleSize
                  \/ 100 * team1Confidence.SampleSize < 33 * team2Confidence.SampleSize
              THEN << <<"Teams have significantly different match counts - consider with caution">> >>
              ELSE <<>>
    IN  low(team1Name, team1Confidence) \o low(team2Name, team2Confidence)
          \o small(team1Name, team1Confidence) \o small(team2Name, team2Confidence)
          \o mismatch \o disparity

\* confidence is the Confidence CompareTeams stored into stats.Confidence
buildComparisonStats(teamStats, confidence) ==
    [WinRate |-> teamStats.WinRate,
     KDRatio |-> teamStats.KDRatio,
     Kills |-> [Avg |-> teamStats.KillsAvg, Total |-> teamStats.Kills],
     Deaths |-> [Avg |-> teamStats.DeathsAvg, Total |-> teamStats.Deaths],
     CurrentStreak |-> teamStats.CurrentStreak,
     Confidence |-> confidence]

filterSignificantAlerts(alerts) ==
    SelectSeq(alerts, LAMBDA a : a.Type # AlertConsistency \/ a.Severity # AlertLow)

\* teamTrends1 and teamTrends2 are the results of the two AnalyzeTrends calls
analyzeRecentTrends(teamTrends1, teamTrends2) ==
    IF IsError(teamTrends1) /\ IsError(teamTrends2) THEN Nil
    ELSE LET has1 == ~IsError(teamTrends1) /\ Len(teamTrends1.Alerts) > 0
             has2 == ~IsError(teamTrends2) /\ Len(teamTrends2.Alerts) > 0
         IN  IF has1 \/ has2
               THEN [kind |-> "recentTrends",
                     Team1HasAlerts |-> has1,
                     Team2HasAlerts |-> has2,
                     Team1Alerts |-> IF has1 THEN filterSignificantAlerts(teamTrends1.Alerts) ELSE <<>>,
                     Team2Alerts |-> IF has2 THEN filterSignificantAlerts(teamTrends2.Alerts) ELSE <<>>]
               ELSE Nil

\* stats1 and stats2 are the results of the two GetTeamStatistics calls,
\* teamTrends1 and teamTrends2 those of the AnalyzeTrends calls of analyzeRecentTrends
CompareTeams(team1Name, team2Name, timeWindow_, stats1, stats2, teamTrends1, teamTrends2) ==
    IF IsError(stats1) THEN Wrap(<<"failed to fetch stats for %s", team1Name>>, stats1)
    ELSE IF IsError(stats2) THEN Wrap(<<"failed to fetch stats for %s", team2Name>>, stats2)
    ELSE
      LET c1 == CalculateConfidence(stats1.SampleSize, stats1.MatchesPlayed, timeWindow_)
          c2 == CalculateConfidence(stats2.SampleSize, stats2.MatchesPlayed, timeWindow_)
          report == [Team1 |-> [Name |-> team1Name, Stats |-> buildComparisonStats(stats1, c1)],
                     Team2 |-> [Name |-> team2Name, Stats |-> buildComparisonStats(stats2, c2)]]
      IN  [kind |-> "comparison",
           Team1 |-> report.Team1,
           Team2 |-> report.Team2,
           Advantages |-> calculateAdvantages(report),
           DataQuality |-> [Team1Matches |-> stats1.MatchesPlayed,
                            Team2Matches |-> stats2.MatchesPlayed,
                            TimeRange |-> timeWindow_],
           Warnings |-> GenerateWarnings(team1Name, c1, team2Name, c2),
           RecentTrends |-> IF timeWindow_ \in {Last3Months, Last6Months, LastYear}
                              THEN analyzeRecentTrends(teamTrends1, teamTrends2)
                              ELSE Nil]

(***************************************************************************)
(* services: TrendsService.AnalyzeTrends                                   *)
(***************************************************************************)
calculateTrendConfidence(recentMatches, overallMatches) ==
    IF recentMatches < 3
      THEN [Level |-> ConfidenceLow, SampleSize |-> recentMatches,
            Reasoning |-> <<"Recent sample is very small (%d matches) - trend may not be reliable",
                            recentMatches>>,
            ReliabilityScore |-> 35]
    ELSE IF recentMatches < 5
      THEN [Level |-> ConfidenceMedium, SampleSize |-> recentMatches,
            Reasoning |-> <<"Recent sample is small (%d matches) but trend is observable",
                            recentMatches>>,
            ReliabilityScore |-> 65]
    ELSE [Level |-> ConfidenceHigh, SampleSize |-> recentMatches,
          Reasoning |-> <<"Recent sample is adequate (%d matches) - trend is clear",
                          recentMatches>>,
          ReliabilityScore |-> 85]

\* overallStats and recentStats are the results of the GetTeamStatistics
\* calls for LAST_3_MONTHS and LAST_WEEK
AnalyzeTrends(teamName, title, overallStats, recentStats) ==
    IF IsError(overallStats) THEN Wrap(<<"failed to fetch overall stats">>, overallStats)
    ELSE IF IsError(recentStats) THEN Wrap(<<"failed to fetch recent stats">>, recentStats)
    ELSE
      LET overall == PeriodStatsOf(Last3Months, overallStats.WinRate,
                                   overallStats.KDRatio, overallStats.MatchesPlayed)
          recent == PeriodStatsOf(LastWeek, recentStats.WinRate,
                                  recentStats.KDRatio, recentStats.MatchesPlayed)
      IN  [kind |-> "trends",
           Team |-> teamName,
           Title |-> title,
           Overall |-> overall,
           Recent |-> recent,
           Alerts |-> generateAlerts(overall, recent),
           Confidence |-> calculateTrendConfidence(recent.Matches, overall.Matches)]

(***************************************************************************)
(* services: ReportService helpers                                         *)
(***************************************************************************)
\* mutation: the level of the first team is taken as it is
calculateOverallConfidenceTeam1Level(comp) ==
    LET team1Conf == comp.Team1.Stats.Confidence
        team2Conf == comp.Team2.Stats.Confidence
        totalMatches == comp.DataQuality.Team1Matches + comp.DataQuality.Team2Matches
    IN  [Level |-> team1Conf.Level,
         SampleSize |-> totalMatches \div 2,
         Reasoning |-> <<"Based on %d matches analyzed across both teams", totalMatches>>,
         ReliabilityScore |-> (team1Conf.ReliabilityScore + team2Conf.ReliabilityScore) \div 2]

calculateOverallConfidence(comp) ==
    LET team1Conf == comp.Team1.Stats.Confidence
        team2Conf == comp.Team2.Stats.Confidence
        lowestLevel ==
            IF team2Conf.Level = ConfidenceLow THEN ConfidenceLow
            ELSE IF team2Conf.Level = ConfidenceMedium /\ team1Conf.Level = ConfidenceHigh
              THEN ConfidenceMedium
            ELSE team1Conf.Level
        totalMatches == comp.DataQuality.Team1Matches + comp.DataQuality.Team2Matches
    IN  [Level |-> lowestLevel,
         SampleSize |-> totalMatches \div 2,
         Reasoning |-> <<"Based on %d matches analyzed across both teams", totalMatches>>,
         ReliabilityScore |-> (team1Conf.ReliabilityScore + team2Conf.ReliabilityScore) \div 2]

\* mutation: any insight counts as a high-priority one
hasHighPriorityInsightNonEmpty(insights) == Len(insights) > 0

hasHighPriorityInsight(insights) ==
    \E i \in 1..Len(insights) : insights[i].Priority = "HIGH"

\* mutation: the priority follows the colour of the icon
KeyInsightByIcon(priority, icon, message) ==
    [Priority |-> CASE icon = "RED"    -> "HIGH"
                    [] icon = "YELLOW" -> "MEDIUM"
                    [] OTHER           -> "LOW",
     Icon |-> icon, Message |-> message]

KeyInsight(priority, icon, message) ==
    [Priority |-> priority, Icon |-> icon, Message |-> message]

FillerInsight ==
    KeyInsight("LOW", "GREEN",
               <<"Both teams showing consistent performance - matchup will be competitive">>)

\* fmt "%.2f" of |x|, in hundredths
FormatHundredths(x) == Format0(Fin(100 * Abs(x.n), x.d))

\* icons are named by their colour; yourTrends and opponentTrends may be Nil
generateKeyInsights(comp, yourTrends, opponentTrends) ==
    LET shifts(alerts, types) ==
            SelectSeq(alerts, LAMBDA a : a.Type \in types /\ a.Severity = AlertHigh)
        oppAlerts == IF opponentTrends = Nil THEN <<>>
                     ELSE shifts(opponentTrends.Alerts, {AlertPositiveShift, AlertNegativeShift})
        opp == [i \in 1..Len(oppAlerts) |->
                  IF oppAlerts[i].Type = AlertPositiveShift
                    THEN KeyInsight("HIGH", "RED",
                           <<"Opponent %s - prepare for strong performance", oppAlerts[i].Message>>)
                    ELSE KeyInsight("HIGH", "GREEN",
                           <<"Opponent struggling: %s - exploit this weakness", oppAlerts[i].Message>>)]
        ownAlerts == IF yourTrends = Nil THEN <<>>
                     ELSE shifts(yourTrends.Alerts, {AlertNegativeShift})
        own == [i \in 1..Len(ownAlerts) |->
                  KeyInsight("HIGH", "RED",
                    <<"Your team: %s - needs adjustment", ownAlerts[i].Message>>)]
        wrDiff == Diff(comp.Team1.Stats.WinRate, comp.Team2.Stats.WinRate)
        wr == IF RatGeq(wrDiff, 15, 100) \/ RatLeqNeg(wrDiff, 15, 100)
                THEN IF wrDiff.n > 0
                       THEN << KeyInsight("MEDIUM", "GREEN",
                                 <<"You have significant win rate advantage (+%.0f%%)",
                                   FormatPct(wrDiff)>>) >>
                       ELSE << KeyInsight("HIGH", "RED",
                                 <<"Opponent has win rate advantage (+%.0f%%)",
                                   FormatPct(wrDiff)>>) >>
                ELSE <<>>
        kdDiff == Diff(comp.Team1.Stats.KDRatio, comp.Team2.Stats.KDRatio)
        kd == IF RatGeq(kdDiff, 15, 100) \/ RatLeqNeg(kdDiff, 15, 100)
                THEN IF kdDiff.n > 0
                       THEN << KeyInsight("MEDIUM", "GREEN",
                                 <<"You have better K/D ratio (+%.2f) - maintain aggressive plays",
                                   FormatHundredths(kdDiff)>>) >>
                       ELSE << KeyInsight("MEDIUM", "YELLOW",
                                 <<"Opponent has better K/D ratio (+%.2f) - focus on trades",
                                   FormatHundredths(kdDiff)>>) >>
                ELSE <<>>
        warn == [i \in 1..Len(comp.Warnings) |->
                   KeyInsight("LOW", "WARNING", comp.Warnings[i])]
        insights == opp \o own \o wr \o kd \o warn
    IN  IF Len(insights) = 0 \/ ~hasHighPriorityInsight(insights)
          THEN Append(insights, FillerInsight)
          ELSE insights

\* the per-team confidences of a comparison of teams with n1 and n2 series
InitOverall == InitIdle /\ InitPure /\ InitNoReport

CallCalculateOverallConfidence ==
    /\ call = NoCall
    /\ \E n1 \in 1..MaxSample, n2 \in 1..MaxSample :
         LET comp == [Team1 |-> [Stats |-> [Confidence |->
                                   CalculateConfidence(n1, n1, Last3Months)]],
                      Team2 |-> [Stats |-> [Confidence |->
                                   CalculateConfidence(n2, n2, Last3Months)]],
                      DataQuality |-> [Team1Matches |-> n1, Team2Matches |-> n2,
                                       TimeRange |-> Last3Months]]
         IN  /\ call' = [op |-> "calculateOverallConfidence", comp |-> comp]
             /\ ret' = calculateOverallConfidence(comp)
    /\ UNCHANGED <<statsVars, reportVars>>

SpecOverall == InitOverall /\ [][CallCalculateOverallConfidence]_vars

\* win rates and K/D ratios 0.15 apart (13/20 against 1/2 and 4/5) and less;
\* on all pairs float64 and exact arithmetic give the same insights
InsightWinRates == {Rat(1, 2), Rat(3, 5), Rat(13, 20), Rat(4, 5)}
InsightKDValues == {Rat(1, 2), Rat(13, 20), Rat(1, 1), Rat(5, 4)}

\* trend reports of a team with baseline win rate 1/2 (5/16) and the given
\* recent win rate, or no trend report
InsightTrends ==
    {Nil} \cup
    {AnalyzeTrends("team", "valorant",
        [kind |-> "stats", WinRate |-> p[1], KDRatio |-> Rat(1, 1),
         MatchesPlayed |-> MaxMatches],
        [kind |-> "stats", WinRate |-> p[2], KDRatio |-> p[3],
         MatchesPlayed |-> MaxMatches]) :
       p \in {<<Rat(1, 2), Rat(1, 2), Rat(1, 1)>>, <<Rat(1, 2), Rat(3, 4), Rat(1, 1)>>,
              <<Rat(1, 2), Rat(1, 4), Rat(5, 4)>>, <<Rat(5, 16), Rat(17, 64), Rat(1, 1)>>}}

InsightWarnings ==
    {<<>>, << <<"Teams have significantly different match counts - consider with caution">> >>}

InitInsights == InitIdle /\ InitPure /\ InitNoReport

CallGenerateKeyInsights ==
    /\ call = NoCall
    /\ \E wr1 \in InsightWinRates, wr2 \in InsightWinRates,
          kd1 \in InsightKDValues, kd2 \in InsightKDValues,
          w \in InsightWarnings, yourTrends \in InsightTrends,
          opponentTrends \in InsightTrends :
         LET comp == [Team1 |-> [Stats |-> [WinRate |-> wr1, KDRatio |-> kd1]],
                      Team2 |-> [Stats |-> [WinRate |-> wr2, KDRatio |-> kd2]],
                      Warnings |-> w]
         IN  /\ call' = [op |-> "generateKeyInsights", comp |-> comp,
                         yourTrends |-> yourTrends, opponentTrends |-> opponentTrends]
             /\ ret' = generateKeyInsights(comp, yourTrends, opponentTrends)
    /\ UNCHANGED <<statsVars, reportVars>>

SpecInsights == InitInsights /\ [][CallGenerateKeyInsights]_vars

(***************************************************************************)
(* CompareTeams and AnalyzeTrends applied to results of GetTeamStatistics  *)
(***************************************************************************)
\* GetTeamStatistics(requested) for a team with the given series history,
\* when each detail fetch returns 3 kills, 2 deaths and 2 games
TeamStatisticsOf(history, requested) ==
    IF Len(history) = 0 THEN ErrorOf(ErrTeamNotFound)
    ELSE LET r == ResolveWindowOf(history, requested)
             totalMatches == Len(r.filtered)
             m == Min(totalMatches, DetailCap)
         IN  IF totalMatches = 0 THEN ErrorOf(ErrInsufficientData)
             ELSE [kind |-> "stats",
                   WinRate |-> [n |-> CountWins(r.filtered, totalMatches), d |-> totalMatches],
                   MatchesPlayed |-> totalMatches,
                   Kills |-> 3 * m,
                   KillsAvg |-> [n |-> 3 * m, d |-> 2 * m],
                   Deaths |-> 2 * m,
                   DeathsAvg |-> [n |-> 2 * m, d |-> 2 * m],
                   KDRatio |-> [n |-> 3 * m, d |-> 2 * m],
                   CurrentStreak |-> CurrentStreakOf(r.filtered),
                   SampleSize |-> totalMatches,
                   ActualTimeWindow |-> r.actual]

\* a recent history of n series of which the most recent n / 2 were lost
RecentHistory(n) ==
    MakeHistory(n, [k \in 1..n |-> Now - 3], [k \in 1..n |-> 2 * k > n])

\* results of GetTeamStatistics: a TeamStats over 1..MaxSample series, or an error
StatsResults(requested) ==
    {TeamStatisticsOf(RecentHistory(n), requested) : n \in 1..MaxSample}
      \cup {ErrorOf(root) : root \in StatsErrorRoots}

\* results of AnalyzeTrends for a team: an error, a report with a
\* CONSISTENCY alert only, a report with a HIGH shift alert
TrendResults(teamName) ==
    {AnalyzeTrends(teamName, "valorant", ErrorOf(ErrInsufficientData), ErrorOf(ErrOther))}
      \cup {AnalyzeTrends(teamName, "valorant",
              [kind |-> "stats", WinRate |-> Rat(1, 2), KDRatio |-> Rat(1, 1),
               MatchesPlayed |-> MaxMatches],
              [kind |-> "stats", WinRate |-> wr, KDRatio |-> Rat(1, 1),
               MatchesPlayed |-> MaxMatches]) : wr \in {Rat(1, 2), Rat(1, 4)}}

InitCompare == InitIdle /\ InitPure /\ InitNoReport

CallCompareTeams ==
    /\ call = NoCall
    /\ \E w \in {LastMonth, Last3Months} :
         \E stats1 \in StatsResults(w), stats2 \in StatsResults(w),
            teamTrends1 \in TrendResults("Cloud9"), teamTrends2 \in TrendResults("G2") :
           /\ call' = [op |-> "CompareTeams", team1Name |-> "Cloud9",
                       team2Name |-> "G2", timeWindow |-> w,
                       stats1 |-> stats1, stats2 |-> stats2,
                       teamTrends1 |-> teamTrends1, teamTrends2 |-> teamTrends2]
           /\ ret' = CompareTeams("Cloud9", "G2", w, stats1, stats2, teamTrends1, teamTrends2)
    /\ UNCHANGED <<statsVars, reportVars>>

SpecCompare == InitCompare /\ [][CallCompareTeams]_vars

\* series histories of a team: dates and outcomes (all won, all lost, or
\* only the most recent won)
TrendHistories ==
    UNION {{MakeHistory(n, dates, won) :
              dates \in {d \in [1..n -> SeriesDates] : SortedDesc(n, d)},
              won \in {[k \in 1..n |-> TRUE], [k \in 1..n |-> FALSE],
                       [k \in 1..n |-> k = 1]}} : n \in 0..MaxSeries}

InitTrends == InitIdle /\ InitPure /\ InitNoReport

CallAnalyzeTrends ==
    /\ call = NoCall
    /\ \E history \in TrendHistories :
         /\ call' = [op |-> "AnalyzeTrends", teamName |-> "Cloud9", history |-> history]
         /\ ret' = AnalyzeTrends("Cloud9", "valorant",
                                 TeamStatisticsOf(history, Last3Months),
                                 TeamStatisticsOf(history, LastWeek))
    /\ UNCHANGED <<statsVars, reportVars>>

SpecTrends == InitTrends /\ [][CallAnalyzeTrends]_vars

(***************************************************************************)
(* services: MetaService.CompareTeamsToMeta                                *)
(***************************************************************************)
GetMetaContextForTeam(teamName) ==
    << <<"%s plays standard compositions", teamName>>,
       <<"Meta analysis requires additional API access">> >>

CompareTeamsToMeta(team1, team2) ==
    [kind |-> "meta",
     OpponentVsMeta |-> GetMetaContextForTeam(team1),
     YourTeamVsMeta |-> GetMetaContextForTeam(team2),
     Recommendations |-> << <<"Focus on individual team performance metrics">>,
                            <<"Meta pick analysis requires additional Grid.gg API tier">> >>]

(***************************************************************************)
(* services: ReportService.GenerateScoutingReport                          *)
(*                                                                         *)
(* Team names and the title are strings given as sequences of pieces, so   *)
(* that Sprintf is a concatenation.  One request is served per behaviour;  *)
(* the cache may hold a report stored by an earlier request.               *)
(***************************************************************************)
Requests ==
    [opponent : {<<"G2">>}, myTeam : {<<"Cloud9">>}, title : {<<"valorant">>},
     timeWindow : {LastMonth, Last3Months}, tournamentIDs : {<<>>, <<"757371">>}]

\* fmt.Sprintf("scouting:%s:%s:%s:%s", opponent, myTeam, title, timeWindow)
cacheKey(opponent, myTeam, title, timeWindow_) ==
    <<"scouting:">> \o opponent \o <<":">> \o myTeam \o <<":">> \o title
        \o <<":", timeWindow_>>

CacheKeyOf(req) == cacheKey(req.opponent, req.myTeam, req.title, req.timeWindow)

\* values uuid.New() can return
ReportIDs == {"uuid-1", "uuid-2"}

\* the zero values TrendReport{} and MetaContext{}
EmptyTrendReport ==
    [kind |-> "trends", Team |-> <<>>, Title |-> <<>>,
     Overall |-> PeriodStatsOf("", Rat(0, 1), Rat(0, 1), 0),
     Recent |-> PeriodStatsOf("", Rat(0, 1), Rat(0, 1), 0),
     Alerts |-> <<>>,
     Confidence |-> [Level |-> "", SampleSize |-> 0, Reasoning |-> <<>>,
                     ReliabilityScore |-> 0]]

EmptyMetaContext ==
    [kind |-> "meta", OpponentVsMeta |-> <<>>, YourTeamVsMeta |-> <<>>,
     Recommendations |-> <<>>]

\* "Build the report" up to the cache set; comp is not Nil
BuildReport(req, id, comp, yourTrends, opponentTrends, meta) ==
    [kind |-> "report",
     ReportID |-> id,
     GeneratedAt |-> Now,
     Matchup |-> [Opponent |-> req.opponent, YourTeam |-> req.myTeam, Title |-> req.title],
     Comparison |-> comp,
     Trends |-> [Opponent |-> IF opponentTrends # Nil THEN opponentTrends ELSE EmptyTrendReport,
                 YourTeam |-> IF yourTrends # Nil THEN yourTrends ELSE EmptyTrendReport],
     MetaContext |-> IF meta # Nil THEN meta ELSE EmptyMetaContext,
     KeyInsights |-> generateKeyInsights(comp, yourTrends, opponentTrends),
     Confidence |-> calculateOverallConfidence(comp),
     CacheStatus |-> [FromCache |-> FALSE, Age |-> "since start"]]

\* series histories of the teams the branches ask about
StrongHistory ==
    MakeHistory(5, [k \in 1..5 |-> Now - 3], [k \in 1..5 |-> k < 5])
WeakHistory ==
    MakeHistory(4, [k \in 1..4 |-> Now - 3], [k \in 1..4 |-> k % 2 = 0])
ShiftHistory ==
    MakeHistory(6, [k \in 1..6 |-> IF k <= 3 THEN Now - 3 ELSE Now - 60],
                [k \in 1..6 |-> k <= 3])

\* what CompareTeams(myTeam, opponent, ...) can return to the comparison branch
ComparisonOutcomes(req) ==
    LET noTrends == AnalyzeTrends(req.myTeam, req.title, ErrorOf(ErrOther), ErrorOf(ErrOther))
    IN  {CompareTeams(req.myTeam, req.opponent, req.timeWindow, s1, s2, noTrends, noTrends) :
           s1 \in {TeamStatisticsOf(StrongHistory, req.timeWindow),
                   TeamStatisticsOf(WeakHistory, req.timeWindow)}
                    \cup {ErrorOf(root) : root \in StatsErrorRoots},
           s2 \in {TeamStatisticsOf(WeakHistory, req.timeWindow),
                   ErrorOf(ErrInsufficientData)}}

\* what AnalyzeTrends(teamName, ...) can return to a trends branch
TrendOutcomes(req, teamName) ==
    {AnalyzeTrends(teamName, req.title, TeamStatisticsOf(h, Last3Months),
                   TeamStatisticsOf(h, LastWeek)) : h \in {WeakHistory, ShiftHistory}}
      \cup {AnalyzeTrends(teamName, req.title, ErrorOf(ErrTeamNotFound), ErrorOf(ErrTeamNotFound)),
            AnalyzeTrends(teamName, req.title, TeamStatisticsOf(WeakHistory, Last3Months),
                          ErrorOf(ErrOther))}

BranchOutcomes(req, b) ==
    CASE b = "comparison" -> ComparisonOutcomes(req)
      [] b = "trends1"    -> TrendOutcomes(req, req.myTeam)
      [] b = "trends2"    -> TrendOutcomes(req, req.opponent)
      [] b = "meta"       -> {CompareTeamsToMeta(req.opponent, req.myTeam)}

\* a report an earlier request generated and stored
StoredReport(req) ==
    BuildReport(req, "uuid-0",
                CompareTeams(req.myTeam, req.opponent, req.timeWindow,
                             TeamStatisticsOf(StrongHistory, req.timeWindow),
                             TeamStatisticsOf(WeakHistory, req.timeWindow),
                             ErrorOf(ErrOther), ErrorOf(ErrOther)),
                Nil, Nil, CompareTeamsToMeta(req.opponent, req.myTeam))

InitReport ==
    /\ InitIdle
    /\ InitPure
    /\ InitNoRequest
    /\ \/ cache = {} /\ cachedFor = {}
       \/ \E req \in Requests :
            /\ cache = {[key |-> CacheKeyOf(req), value |-> StoredReport(req)]}
            /\ cachedFor = {[key |-> CacheKeyOf(req), args |-> req]}

\* entry of GenerateScoutingReport
NewRequest ==
    /\ rpc = "idle"
    /\ \E req \in Requests : request' = req
    /\ rpc' = "lookup"
    /\ UNCHANGED <<statsVars, pureVars, cache, cachedFor, branch, outcome, mu,
                   comparison, trends1, trends2, metaCtx, errors, scoutingReport, rerr>>

\* mutation: a cache hit refreshes the stored entry
CacheLookupTouch ==
    /\ rpc = "lookup"
    /\ \E getOk \in BOOLEAN :
         LET hits == {e \in cache : e.key = CacheKeyOf(request)}
         IN  IF getOk /\ hits # {}
               THEN /\ \E e \in hits :
                         /\ scoutingReport' =
                              [e.value EXCEPT !.CacheStatus =
                                 [FromCache |-> TRUE, Age |-> "since GeneratedAt"]]
                         /\ cache' = (cache \ {e})
                                       \cup {[key |-> e.key, value |-> scoutingReport']}
                    /\ rpc' = "done"
                    /\ UNCHANGED branch
               ELSE /\ branch' = [b \in Branches |-> "running"]
                    /\ rpc' = "wait"
                    /\ UNCHANGED <<scoutingReport, cache>>
    /\ UNCHANGED <<statsVars, pureVars, request, cachedFor, outcome, mu, comparison,
                   trends1, trends2, metaCtx, errors, rerr>>

\* cache.Get: on a hit the stored report is returned, otherwise (no entry,
\* or the cache call fails) the four goroutines are started
CacheLookup ==
    /\ rpc = "lookup"
    /\ \E getOk \in BOOLEAN :
         LET hits == {e \in cache : e.key = CacheKeyOf(request)}
         IN  IF getOk /\ hits # {}
               THEN /\ \E e \in hits :
                         scoutingReport' =
                           [e.value EXCEPT !.CacheStatus =
                              [FromCache |-> TRUE, Age |-> "since GeneratedAt"]]
                    /\ rpc' = "done"
                    /\ UNCHANGED branch
               ELSE /\ branch' = [b \in Branches |-> "running"]
                    /\ rpc' = "wait"
                    /\ UNCHANGED scoutingReport
    /\ UNCHANGED <<statsVars, pureVars, request, cache, cachedFor, outcome, mu, comparison,
                   trends1, trends2, metaCtx, errors, rerr>>

\* a goroutine's service call returns and the goroutine takes the mutex
BranchLock(b) ==
    /\ branch[b] = "running"
    /\ mu = Free
    /\ \E o \in BranchOutcomes(request, b) : outcome' = [outcome EXCEPT ![b] = o]
    /\ mu' = b
    /\ branch' = [branch EXCEPT ![b] = "locked"]
    /\ UNCHANGED <<statsVars, pureVars, request, rpc, cache, cachedFor, comparison,
                   trends1, trends2, metaCtx, errors, scoutingReport, rerr>>

\* mutation: a trend report goes to the first trends variable still unset
BranchStoreByArrival(b) ==
    /\ branch[b] = "locked"
    /\ mu = b
    /\ LET o == outcome[b]
           first == b \in {"trends1", "trends2"} /\ trends1 = Nil
       IN  /\ errors' = IF b # "meta" /\ IsError(o)
                          THEN Append(errors,
                                 Wrap(IF b = "comparison" THEN <<"comparison failed">>
                                      ELSE <<"trends for %s failed",
                                             IF b = "trends1" THEN request.myTeam
                                             ELSE request.opponent>>, o))
                          ELSE errors
           /\ comparison' = IF b = "comparison" /\ ~IsError(o) THEN o ELSE comparison
           /\ trends1' = IF first /\ ~IsError(o) THEN o ELSE trends1
           /\ trends2' = IF b \in {"trends1", "trends2"} /\ ~first /\ ~IsError(o)
                           THEN o ELSE trends2
           /\ metaCtx' = IF b = "meta" THEN o ELSE metaCtx
    /\ mu' = Free
    /\ branch' = [branch EXCEPT ![b] = "done"]
    /\ UNCHANGED <<statsVars, pureVars, request, rpc, cache, cachedFor, outcome,
                   scoutingReport, rerr>>

\* the critical section of a goroutine, mu.Unlock and wg.Done
BranchStore(b) ==
    /\ branch[b] = "locked"
    /\ mu = b
    /\ LET o == outcome[b]
       IN  /\ errors' = IF b # "meta" /\ IsError(o)
                          THEN Append(errors,
                                 Wrap(IF b = "comparison" THEN <<"comparison failed">>
                                      ELSE <<"trends for %s failed",
                                             IF b = "trends1" THEN request.myTeam
                                             ELSE request.opponent>>, o))
                          ELSE errors
           /\ comparison' = IF b = "comparison" /\ ~IsError(o) THEN o ELSE comparison
           /\ trends1' = IF b = "trends1" /\ ~IsError(o) THEN o ELSE trends1
           /\ trends2' = IF b = "trends2" /\ ~IsError(o) THEN o ELSE trends2
           /\ metaCtx' = IF b = "meta" THEN o ELSE metaCtx
    /\ mu' = Free
    /\ branch' = [branch EXCEPT ![b] = "done"]
    /\ UNCHANGED <<statsVars, pureVars, request, rpc, cache, cachedFor, outcome,
                   scoutingReport, rerr>>

\* mutation: any recorded error fails the request
ComposeFailOnAnyError ==
    /\ rpc = "wait"
    /\ \A b \in Branches : branch[b] = "done"
    /\ IF comparison = Nil \/ Len(errors) > 0
         THEN /\ rerr' = IF Len(errors) > 0 THEN errors[1]
                         ELSE Wrap(<<"failed to fetch comparison data">>, ErrorOf(ErrOther))
              /\ UNCHANGED <<scoutingReport, cache, cachedFor>>
         ELSE \E id \in ReportIDs, setOk \in BOOLEAN :
                LET r == BuildReport(request, id, comparison, trends1, trends2, metaCtx)
                IN  /\ scoutingReport' = r
                    /\ cache' = IF setOk
                                  THEN {e \in cache : e.key # CacheKeyOf(request)}
                                         \cup {[key |-> CacheKeyOf(request), value |-> r]}
                                  ELSE cache
                    /\ cachedFor' = IF setOk
                                      THEN {c \in cachedFor : c.key # CacheKeyOf(request)}
                                             \cup {[key |-> CacheKeyOf(request),
                                                    args |-> request]}
                                      ELSE cachedFor
                    /\ UNCHANGED rerr
    /\ rpc' = "done"
    /\ UNCHANGED <<statsVars, pureVars, request, branch, outcome, mu, comparison,
                   trends1, trends2, metaCtx, errors>>

\* mutation: composition waits for the comparison branch only
ComposeAfterComparison ==
    /\ rpc = "wait"
    /\ branch["comparison"] = "done"
    /\ IF comparison = Nil
         THEN /\ rerr' = IF Len(errors) > 0 THEN errors[1]
                         ELSE Wrap(<<"failed to fetch comparison data">>, ErrorOf(ErrOther))
              /\ UNCHANGED <<scoutingReport, cache, cachedFor>>
         ELSE \E id \in ReportIDs, setOk \in BOOLEAN :
                LET r == BuildReport(request, id, comparison, trends1, trends2, metaCtx)
                IN  /\ scoutingReport' = r
                    /\ cache' = IF setOk
                                  THEN {e \in cache : e.key # CacheKeyOf(request)}
                                         \cup {[key |-> CacheKeyOf(request), value |-> r]}
                                  ELSE cache
                    /\ cachedFor' = IF setOk
                                      THEN {c \in cachedFor : c.key # CacheKeyOf(request)}
                                             \cup {[key |-> CacheKeyOf(request),
                                                    args |-> request]}
                                      ELSE cachedFor
                    /\ UNCHANGED rerr
    /\ rpc' = "done"
    /\ UNCHANGED <<statsVars, pureVars, request, branch, outcome, mu, comparison,
                   trends1, trends2, metaCtx, errors>>

\* after wg.Wait: the error return, or the report, the cache set and the return
Compose ==
    /\ rpc = "wait"
    /\ \A b \in Branches : branch[b] = "done"
    /\ IF comparison = Nil
         THEN /\ rerr' = IF Len(errors) > 0 THEN errors[1]
                         ELSE Wrap(<<"failed to fetch comparison data">>, ErrorOf(ErrOther))
              /\ UNCHANGED <<scoutingReport, cache, cachedFor>>
         ELSE \E id \in ReportIDs, setOk \in BOOLEAN :
                LET r == BuildReport(request, id, comparison, trends1, trends2, metaCtx)
                IN  /\ scoutingReport' = r
                    /\ cache' = IF setOk
                                  THEN {e \in cache : e.key # CacheKeyOf(request)}
                                         \cup {[key |-> CacheKeyOf(request), value |-> r]}
                                  ELSE cache
                    /\ cachedFor' = IF setOk
                                      THEN {c \in cachedFor : c.key # CacheKeyOf(request)}
                                             \cup {[key |-> CacheKeyOf(request),
                                                    args |-> request]}
                                      ELSE cachedFor
                    /\ UNCHANGED rerr
    /\ rpc' = "done"
    /\ UNCHANGED <<statsVars, pureVars, request, branch, outcome, mu, comparison,
                   trends1, trends2, metaCtx, errors>>

NextReport ==
    \/ NewRequest
    \/ CacheLookup
    \/ \E b \in Branches : BranchLock(b)
    \/ \E b \in Branches : BranchStore(b)
    \/ Compose

SpecReport == InitReport /\ [][NextReport]_vars

(***************************************************************************)
(* handlers: the status code answered for what the service returned        *)
(***************************************************************************)
StatusOK == 200
StatusNotFound == 404
StatusInternalServerError == 500
StatusGatewayTimeout == 504

\* errors.As / errors.Is follow the %w chain down to the wrapped error
ErrorsAs(failure, root) == failure.root = root

\* strings.Contains(err.Error(), text): err.Error() is the messages of the
\* chain followed by the message of the wrapped error
ErrorContains(failure, text) == \E i \in 1..Len(failure.chain) : failure.chain[i][1] = text

\* Handler.CompareTeams
CompareTeamsStatus(r) ==
    IF ~IsError(r) THEN StatusOK
    ELSE IF ErrorsAs(r, ErrInsufficientData) THEN StatusNotFound
    ELSE IF ErrorsAs(r, ErrTeamNotFound) THEN StatusNotFound
    ELSE IF ErrorContains(r, "no teams found matching name") THEN StatusNotFound
    ELSE IF ErrorsAs(r, ErrDeadlineExceeded) THEN StatusGatewayTimeout
    ELSE StatusInternalServerError

\* Handler.GetTeamTrends
GetTeamTrendsStatus(r) ==
    IF ~IsError(r) THEN StatusOK
    ELSE IF ErrorsAs(r, ErrInsufficientData) THEN StatusNotFound
    ELSE IF ErrorsAs(r, ErrTeamNotFound) THEN StatusNotFound
    ELSE IF ErrorContains(r, "no teams found matching name") THEN StatusNotFound
    ELSE IF ErrorsAs(r, ErrDeadlineExceeded) THEN StatusGatewayTimeout
    ELSE StatusInternalServerError

\* Handler.GenerateScoutingReport, given the error GenerateScoutingReport
\* returned (Nil when it returned a report)
GenerateScoutingReportStatus(failure) ==
    IF failure = Nil THEN StatusOK
    ELSE IF ErrorsAs(failure, ErrTeamNotFound) THEN StatusNotFound
    ELSE IF ErrorsAs(failure, ErrDeadlineExceeded) THEN StatusGatewayTimeout
    ELSE StatusInternalServerError

(***************************************************************************)
(* GenerateWarnings applied to confidences drawn from bounded sets         *)
(***************************************************************************)
\* sample sizes; 33 against 99, 100 and 101 lie on and next to both 0.33 and
\* 1/3, 1 against 3 and 4, 2 against 6 and 7 on and next to 3; on all pairs of
\* this set the float64 quotient and the exact quotient compare alike
WarningSampleSizes == {1, 2, 3, 4, 6, 7, 10, 33, 34, 99, 100, 101}

InitWarnings == InitIdle /\ InitPure /\ InitNoReport

CallGenerateWarnings ==
    /\ call = NoCall
    /\ \E n1 \in WarningSampleSizes, n2 \in WarningSampleSizes,
          l1 \in {ConfidenceHigh, ConfidenceMedium, ConfidenceLow},
          l2 \in {ConfidenceHigh, ConfidenceMedium, ConfidenceLow} :
         LET c1 == [Level |-> l1, SampleSize |-> n1]
             c2 == [Level |-> l2, SampleSize |-> n2]
         IN  /\ call' = [op |-> "GenerateWarnings", team1Name |-> "Cloud9",
                         team1Confidence |-> c1, team2Name |-> "G2",
                         team2Confidence |-> c2]
             /\ ret' = GenerateWarnings("Cloud9", c1, "G2", c2)
    /\ UNCHANGED <<statsVars, reportVars>>

SpecWarnings == InitWarnings /\ [][CallGenerateWarnings]_vars

(***************************************************************************)
(* Properties of GetTeamStatistics                                         *)
(***************************************************************************)
\* the fallback chains and window widths as the specification states them
FallbackChain(w) ==
    CASE w = "LAST_WEEK"     -> <<"LAST_WEEK", "LAST_MONTH", "LAST_3_MONTHS">>
      [] w = "LAST_MONTH"    -> <<"LAST_MONTH", "LAST_3_MONTHS", "LAST_6_MONTHS">>
      [] w = "LAST_3_MONTHS" -> <<"LAST_3_MONTHS", "LAST_6_MONTHS", "LAST_YEAR">>
      [] w = "LAST_6_MONTHS" -> <<"LAST_6_MONTHS", "LAST_YEAR">>
      [] w = "LAST_YEAR"     -> <<"LAST_YEAR">>

WindowDays(w) ==
    CASE w = "LAST_WEEK"     -> 7
      [] w = "LAST_MONTH"    -> 30
      [] w = "LAST_3_MONTHS" -> 90
      [] w = "LAST_6_MONTHS" -> 180
      [] w = "LAST_YEAR"     -> 365

InChain(w, chain) == \E k \in 1..Len(chain) : chain[k] = w

\* positions of the history whose series lies inside window w
InWindow(history, w) == {k \in 1..Len(history) : Now - history[k].date < WindowDays(w)}

\* the series of the history inside window w, in history order
SeriesInWindow(history, w) ==
    SelectSeq(history, LAMBDA s : Now - s.date < WindowDays(w))

\* the window resolution has run for a valid request
Resolved ==
    /\ timeWindow \in TimeWindows
    /\ \/ pc = "detail"
       \/ pc = "done" /\ err.kind \notin {"NoTournaments", "FetchFailed", "TeamNotFound"}

Returned == pc = "done" /\ stats.kind = "stats"

\* C1: for every requested window of the five, the ActualTimeWindow of a
\* returned TeamStats is a member of the requested window's fallback chain
\* and is never narrower than the requested window.
C1_ActualWindowInChain ==
    (Returned /\ timeWindow \in TimeWindows) =>
        /\ InChain(stats.ActualTimeWindow, FallbackChain(timeWindow))
        /\ WindowDays(stats.ActualTimeWindow) >= WindowDays(timeWindow)

\* a returned TeamStats whose window was widened twice
C1_Witness ==
    /\ Returned
    /\ timeWindow = LastMonth
    /\ stats.ActualTimeWindow = Last6Months

\* first position of the chain whose window holds at least 3 series
Qualifies(history, w) == Cardinality(InWindow(history, w)) >= 3

FirstQualifying(history, chain) ==
    CHOOSE k \in 1..Len(chain) :
        /\ Qualifies(history, chain[k])
        /\ \A j \in 1..(k - 1) : ~Qualifies(history, chain[j])

\* C2: the resolver stops at the first window of the chain, in order, whose
\* date filter yields at least 3 series, and returns that window and exactly
\* those series; a wider window later in the chain is not used.
C2_FirstQualifyingWindow ==
    LET chain == FallbackChain(timeWindow)
    IN  (Resolved /\ \E k \in 1..Len(chain) : Qualifies(seriesHistory, chain[k])) =>
          LET w == chain[FirstQualifying(seriesHistory, chain)]
          IN  /\ actualWindow = w
              /\ filteredSeries = SeriesInWindow(seriesHistory, w)

\* LAST_WEEK with 0 series, LAST_MONTH with 4, resolved to LAST_MONTH with
\* those 4, while LAST_3_MONTHS holds them as well
C2_Witness ==
    /\ Resolved
    /\ timeWindow = LastWeek
    /\ Cardinality(InWindow(seriesHistory, LastWeek)) = 0
    /\ Cardinality(InWindow(seriesHistory, LastMonth)) = 4
    /\ actualWindow = LastMonth
    /\ Len(filteredSeries) = 4

Widest(w) == LET chain == FallbackChain(w) IN chain[Len(chain)]

MostRecentDate(history) ==
    CHOOSE d \in {history[k].date : k \in 1..Len(history)} :
        \A k \in 1..Len(history) : history[k].date <= d

Attempted == 1..(IF Len(filteredSeries) < 10 THEN Len(filteredSeries) ELSE 10)

DetailOf(k) == detailSource[filteredSeries[k].id]

Matched == {k \in Attempted : DetailOf(k).kind = "ok"}

RECURSIVE SumDetail(_, _)
SumDetail(S, field) ==
    IF S = {} THEN 0
    ELSE LET k == CHOOSE x \in S : TRUE
         IN  DetailOf(k)[field] + SumDetail(S \ {k}, field)

\* GetTeamStatistics has returned from its aggregation part
Aggregated ==
    /\ pc = "done"
    /\ stats.kind = "stats" \/ err.kind \in {"NoDetailedStats", "InsufficientDetailedStats"}

FailedForLackOfDetail == err.kind \in {"NoDetailedStats", "InsufficientDetailedStats"}

AllAttemptedFetched ==
    /\ Len(detailRequests) = Cardinality(Attempted)
    /\ \A k \in Attempted : detailRequests[k] = filteredSeries[k].id
    /\ successfulDownloads = Cardinality(Matched)

\* C4 (as stated): a series whose detail fetch errors or whose team is not
\* matched is skipped and the remaining series are still processed; the
\* aggregation fails for lack of detail exactly when none of the attempted
\* series yields matched detail stats.
C4_FailsExactlyWhenNoneMatched ==
    Aggregated =>
        /\ AllAttemptedFetched
        /\ FailedForLackOfDetail <=> Matched = {}

\* C4 (amended): as above, but the aggregation fails for lack of detail
\* exactly when no attempted series yields matched detail stats or the
\* matched stats add up to zero games or zero deaths.
C4_FailsWhenNoUsableDetail ==
    Aggregated =>
        /\ AllAttemptedFetched
        /\ FailedForLackOfDetail <=>
              \/ Matched = {}
              \/ SumDetail(Matched, "games") = 0
              \/ SumDetail(Matched, "deaths") = 0

\* a TeamStats returned although an earlier fetch failed and another one
\* did not match the team
C4_Witness ==
    /\ Returned
    /\ \E i, j, k \in Attempted :
         /\ i < k
         /\ j < k
         /\ DetailOf(i).kind = "error"
         /\ DetailOf(j).kind = "nomatch"
         /\ k \in Matched

\* C5: winRate is the number of won series over the number of ALL series of
\* the resolved window (so within 0..1), whereas kill/death totals, averages
\* and the K/D ratio are accumulated only over the series, among the 10 most
\* recent, whose detail fetch succeeded and matched the team.
C5_DualDenominator ==
    Returned =>
        /\ stats.WinRate.d = Len(filteredSeries)
        /\ stats.WinRate.n = Cardinality({k \in 1..Len(filteredSeries) : filteredSeries[k].won})
        /\ stats.WinRate.d > 0
        /\ 0 <= stats.WinRate.n
        /\ stats.WinRate.n <= stats.WinRate.d
        /\ timeWindow \in TimeWindows =>
             \E k \in 1..Len(FallbackChain(timeWindow)) :
                filteredSeries = SeriesInWindow(seriesHistory, FallbackChain(timeWindow)[k])
        /\ \A k \in Attempted : \A j \in 1..Len(filteredSeries) :
             j \notin Attempted => filteredSeries[k].date >= filteredSeries[j].date
        /\ stats.Kills = SumDetail(Matched, "kills")
        /\ stats.Deaths = SumDetail(Matched, "deaths")
        /\ stats.KillsAvg = [n |-> SumDetail(Matched, "kills"), d |-> SumDetail(Matched, "games")]
        /\ stats.DeathsAvg = [n |-> SumDetail(Matched, "deaths"), d |-> SumDetail(Matched, "games")]
        /\ stats.KDRatio = [n |-> SumDetail(Matched, "kills"), d |-> SumDetail(Matched, "deaths")]

\* a TeamStats over 11 series, one beyond the detail cap, with fewer than 10
\* matched detail fetches and both wins and losses
C5_Witness ==
    /\ Returned
    /\ Len(filteredSeries) = 11
    /\ Cardinality(Matched) < 10
    /\ detailSource[filteredSeries[11].id].kind = "ok"
    /\ 0 < stats.WinRate.n
    /\ stats.WinRate.n < stats.WinRate.d

\* C6: sampleSize equals the count of series actually used to compute the
\* statistics (the series whose detail stats entered the totals) and never
\* exceeds the number of series fetched for the team.
C6_SampleSizeIsSeriesUsed ==
    Returned =>
        /\ stats.SampleSize = Cardinality(Matched)
        /\ stats.SampleSize <= Len(seriesHistory)

(***************************************************************************)
(* Properties of CalculateConfidence                                       *)
(***************************************************************************)
ConfidenceCalled == call.op = "CalculateConfidence"

LevelRank(level) ==
    CASE level = "LOW" -> 1
      [] level = "MEDIUM" -> 2
      [] level = "HIGH" -> 3

\* C8: for a fixed total and window and sample sizes s1 <= s2, the level
\* returned for s2 is not lower than the level returned for s1.
C8_ConfidenceMonotonic ==
    ConfidenceCalled =>
        \A s2 \in call.sampleSize..MaxSample :
            LevelRank(ret.Level)
              <= LevelRank(CalculateConfidence(s2, call.totalTeamMatches,
                                               call.timeWindow).Level)

\* a LOW result for a sample that larger samples lift to MEDIUM and to HIGH
C8_Witness ==
    /\ ConfidenceCalled
    /\ call.totalTeamMatches >= 18
    /\ ret.Level = "LOW"
    /\ \E s2, s3 \in call.sampleSize..MaxSample :
         /\ CalculateConfidence(s2, call.totalTeamMatches, call.timeWindow).Level = "MEDIUM"
         /\ CalculateConfidence(s3, call.totalTeamMatches, call.timeWindow).Level = "HIGH"

(***************************************************************************)
(* Properties of generateAlerts                                            *)
(***************************************************************************)
AlertsCalled == call.op = "generateAlerts"

\* numerator and denominator of the exact relative change of a against b,
\* in percent, for b > 0: 100 * (a - b) / b
PctNum(a, b) == 100 * (a.n * b.d - b.n * a.d)
PctDen(a, b) == a.d * b.n

\* C9: whenever recent.matches < 2, exactly one alert is returned, of type
\* CONSISTENCY and severity LOW (insufficient recent data); no win-rate, K/D
\* or 'performance remains consistent' alert accompanies it.
C9_SmallSampleSingleAlert ==
    (AlertsCalled /\ call.recent.Matches < 2) =>
        /\ Len(ret) = 1
        /\ ret[1].Type = "CONSISTENCY"
        /\ ret[1].Severity = "LOW"
        /\ ret[1].Message = <<"Insufficient recent data for trend analysis">>

\* one recent match, although win rate and K/D both moved by 25% or more
C9_Witness ==
    /\ AlertsCalled
    /\ call.recent.Matches = 1
    /\ call.overall.WinRate = Rat(1, 2)
    /\ call.recent.WinRate = Rat(3, 4)
    /\ call.overall.KDRatio = Rat(1, 1)
    /\ call.recent.KDRatio = Rat(25, 16)
    /\ Len(ret) = 1

ShiftAlerts == {k \in 1..Len(ret) : ret[k].Type \in {"POSITIVE_SHIFT", "NEGATIVE_SHIFT"}}

AdvantagesCalled == call.op = "calculateAdvantages"

WinRateMessages(advs) ==
    {i \in 1..Len(advs) : advs[i][1] = "Higher win rate (+%.0f%%)"}

\* the exact win-rate difference team 1 - team 2, as numerator and denominator
WrNum == call.report.Team1.Stats.WinRate.n * call.report.Team2.Stats.WinRate.d
         - call.report.Team2.Stats.WinRate.n * call.report.Team1.Stats.WinRate.d
WrDen == call.report.Team1.Stats.WinRate.d * call.report.Team2.Stats.WinRate.d

\* N is 100 * |difference| rounded to the nearest integer
RoundedPct(N) == 2 * Abs(100 * Abs(WrNum) - N * WrDen) <= WrDen

OverallCalled == call.op = "calculateOverallConfidence"

LowerLevel(l1, l2) == IF LevelRank(l1) <= LevelRank(l2) THEN l1 ELSE l2

\* C14 (as stated): the overall confidence level is the lower of the two
\* teams' levels in the order LOW < MEDIUM < HIGH, and the reliability score
\* is the mean of the two per-team reliability scores.
C14_OverallIsLowerAndMean ==
    OverallCalled =>
      LET c1 == call.comp.Team1.Stats.Confidence
          c2 == call.comp.Team2.Stats.Confidence
      IN  /\ ret.Level = LowerLevel(c1.Level, c2.Level)
          /\ 2 * ret.ReliabilityScore = c1.ReliabilityScore + c2.ReliabilityScore

\* C14 (amended): as above, but the reliability score is the mean of the
\* two per-team scores rounded down to an integer.
C14_OverallIsLowerAndFlooredMean ==
    OverallCalled =>
      LET c1 == call.comp.Team1.Stats.Confidence
          c2 == call.comp.Team2.Stats.Confidence
          sum == c1.ReliabilityScore + c2.ReliabilityScore
      IN  /\ ret.Level = LowerLevel(c1.Level, c2.Level)
          /\ 2 * ret.ReliabilityScore <= sum
          /\ sum < 2 * ret.ReliabilityScore + 2

\* HIGH/95 with MEDIUM/60: MEDIUM with score 77
C14_Witness ==
    /\ OverallCalled
    /\ call.comp.Team1.Stats.Confidence.Level = "HIGH"
    /\ call.comp.Team1.Stats.Confidence.ReliabilityScore = 95
    /\ call.comp.Team2.Stats.Confidence.Level = "MEDIUM"
    /\ ret.Level = "MEDIUM"
    /\ ret.ReliabilityScore = 77

InsightsCalled == call.op = "generateKeyInsights"

FillerMessage ==
    <<"Both teams showing consistent performance - matchup will be competitive">>

Fillers(insights) == {i \in 1..Len(insights) : insights[i].Message = FillerMessage}

\* C15: the key-insight list contains the LOW 'competitive matchup' filler
\* exactly when none of the other insights has HIGH priority (so also when
\* MEDIUM or LOW insights exist); the filler appears at most once and the
\* list is never empty.
C15_FillerIffNoHigh ==
    InsightsCalled =>
      LET others == (1..Len(ret)) \ Fillers(ret)
      IN  /\ (Fillers(ret) # {}) <=> (\A i \in others : ret[i].Priority # "HIGH")
          /\ \A i \in Fillers(ret) : ret[i].Priority = "LOW"
          /\ Cardinality(Fillers(ret)) <= 1
          /\ Len(ret) >= 1

\* a MEDIUM and a LOW insight, no HIGH one: the filler is appended
C15_Witness ==
    /\ InsightsCalled
    /\ Len(ret) = 3
    /\ ret[1].Priority = "MEDIUM"
    /\ ret[2].Priority = "LOW"
    /\ ret[3].Message = FillerMessage


(***************************************************************************)
(* Properties of CompareTeams and AnalyzeTrends                            *)
(***************************************************************************)
CompareReturned == call.op = "CompareTeams" /\ ret.kind = "comparison"

\* the documented bands: level and score range for a number of matches
BandLevel(matches) ==
    IF matches >= 15 THEN "HIGH" ELSE IF matches >= 7 THEN "MEDIUM" ELSE "LOW"

InBand(confidence, matches) ==
    /\ confidence.Level = BandLevel(matches)
    /\ confidence.Level = "HIGH" => confidence.ReliabilityScore >= 85
    /\ confidence.Level = "MEDIUM" =>
         (confidence.ReliabilityScore >= 60 /\ confidence.ReliabilityScore <= 84)
    /\ confidence.Level = "LOW" => confidence.ReliabilityScore < 60

\* C18: every confidence attached to a statistic follows the documented
\* bands: HIGH for 15 or more matches with a reliability score of at least
\* 85, MEDIUM for 7 to 14 matches with a score from 60 to 84, LOW for fewer
\* than 7 matches with a score below 60.
C18_DocumentedBands ==
    CompareReturned =>
        /\ InBand(ret.Team1.Stats.Confidence, ret.DataQuality.Team1Matches)
        /\ InBand(ret.Team2.Stats.Confidence, ret.DataQuality.Team2Matches)

TrendsReturned == call.op = "AnalyzeTrends" /\ ret.kind = "trends"

\* the window the graduated fallback uses for a request: the first window
\* of the chain with at least 3 series
UsedWindow(history, requested) ==
    FallbackChain(requested)[FirstQualifying(history, FallbackChain(requested))]

SomeQualifies(history, requested) ==
    \E k \in 1..Len(FallbackChain(requested)) :
        Qualifies(history, FallbackChain(requested)[k])

\* C20: in a trend report, the timeWindow of the recent period (and of the
\* baseline period) names the window actually used after graduated fallback,
\* and matches is the number of series found in that window: a LAST_WEEK
\* request expanded to LAST_MONTH gives recent.timeWindow = LAST_MONTH.
C20_PeriodNamesUsedWindow ==
    TrendsReturned =>
        /\ SomeQualifies(call.history, "LAST_WEEK") =>
             /\ ret.Recent.TimeWindow = UsedWindow(call.history, "LAST_WEEK")
             /\ ret.Recent.Matches =
                  Cardinality(InWindow(call.history, UsedWindow(call.history, "LAST_WEEK")))
        /\ SomeQualifies(call.history, "LAST_3_MONTHS") =>
             /\ ret.Overall.TimeWindow = UsedWindow(call.history, "LAST_3_MONTHS")
             /\ ret.Overall.Matches =
                  Cardinality(InWindow(call.history, UsedWindow(call.history, "LAST_3_MONTHS")))


(***************************************************************************)
(* Properties of GenerateScoutingReport                                    *)
(***************************************************************************)
\* the request was answered after the four branches ran
Generated == rpc = "done" /\ \A b \in Branches : branch[b] = "done"

Failed(b) == IsError(outcome[b])

\* C12: if the comparison branch succeeds and the trend analyses of both
\* teams fail (in any order, with any error), a report is still returned:
\* its comparison is the one the comparison branch produced, both trend
\* sections are empty, and no error is returned.
C12_ReportDespiteTrendFailures ==
    (Generated /\ ~Failed("comparison") /\ Failed("trends1") /\ Failed("trends2")) =>
        /\ scoutingReport # Nil
        /\ scoutingReport.Comparison = outcome["comparison"]
        /\ scoutingReport.Trends.YourTeam = EmptyTrendReport
        /\ scoutingReport.Trends.Opponent = EmptyTrendReport
        /\ rerr = Nil

\* both trend analyses failed, the opponent's first and with another error
C12_Witness ==
    /\ Generated
    /\ ~Failed("comparison")
    /\ Len(errors) = 2
    /\ errors[1] = Wrap(<<"trends for %s failed", request.opponent>>, outcome["trends2"])
    /\ errors[2] = Wrap(<<"trends for %s failed", request.myTeam>>, outcome["trends1"])
    /\ errors[1].root # errors[2].root
    /\ scoutingReport # Nil

\* C13: whenever the comparison branch fails, no report is returned and the
\* error returned is the comparison's error with its type identity intact,
\* under every order in which the branches finish; an error of a trend or
\* meta branch is never the error returned.
C13_ComparisonErrorReturned ==
    (Generated /\ Failed("comparison")) =>
        /\ scoutingReport = Nil
        /\ rerr = Wrap(<<"comparison failed">>, outcome["comparison"])
        /\ rerr.root = outcome["comparison"].root

OrNil(o) == IF IsError(o) THEN Nil ELSE o
OrEmpty(o) == IF IsError(o) THEN EmptyTrendReport ELSE o

\* C16: for fixed outcomes of the comparison, the two trend analyses and the
\* meta-context, every field of the composed report other than reportId,
\* generatedAt and the cache age is determined by those outcomes, whatever
\* the order in which the branches finish and whichever optional branches
\* failed.
C16_ReportDeterminedByOutcomes ==
    (Generated /\ ~Failed("comparison")) =>
        /\ scoutingReport # Nil
        /\ scoutingReport.Matchup =
             [Opponent |-> request.opponent, YourTeam |-> request.myTeam,
              Title |-> request.title]
        /\ scoutingReport.Comparison = outcome["comparison"]
        /\ scoutingReport.Trends.YourTeam = OrEmpty(outcome["trends1"])
        /\ scoutingReport.Trends.Opponent = OrEmpty(outcome["trends2"])
        /\ scoutingReport.MetaContext = outcome["meta"]
        /\ scoutingReport.KeyInsights =
             generateKeyInsights(outcome["comparison"], OrNil(outcome["trends1"]),
                                 OrNil(outcome["trends2"]))
        /\ scoutingReport.Confidence = calculateOverallConfidence(outcome["comparison"])
        /\ scoutingReport.CacheStatus.FromCache = FALSE

\* a report with the trend report of one team only, and different insights
\* than the opponent's trend report alone would give
C16_Witness ==
    /\ Generated
    /\ ~Failed("comparison")
    /\ ~Failed("trends1")
    /\ Failed("trends2")
    /\ Len(outcome["trends1"].Alerts) > 0
    /\ scoutingReport.Trends.YourTeam = outcome["trends1"]
    /\ scoutingReport.Trends.Opponent = EmptyTrendReport

Entries(c, key) == {e \in c : e.key = key}

\* C17: on a cache hit the stored report is returned marked fromCache = true,
\* no fetch branch is dispatched and the cache is not written; an entry is
\* written only after a successful generation, as one whole report in a
\* single set; a failed generation never creates or changes an entry, and a
\* failed cache set never fails the request.
C17_CacheDiscipline ==
    [][LET key == CacheKeyOf(request)
       IN  /\ (rpc = "lookup" /\ rpc' = "done") =>
                /\ \E e \in Entries(cache, key) :
                     scoutingReport' = [e.value EXCEPT !.CacheStatus.FromCache = TRUE,
                                                       !.CacheStatus.Age = "since GeneratedAt"]
                /\ rerr' = Nil
                /\ \A b \in Branches : branch'[b] = "idle"
                /\ cache' = cache
           /\ cache' # cache =>
                /\ rpc = "wait" /\ rpc' = "done"
                /\ comparison # Nil
                /\ rerr' = Nil
                /\ scoutingReport'.kind = "report"
                /\ cache' = (cache \ Entries(cache, key))
                              \cup {[key |-> key, value |-> scoutingReport']}
           /\ (rpc = "wait" /\ rpc' = "done" /\ comparison = Nil) =>
                (cache' = cache /\ scoutingReport' = Nil /\ rerr' # Nil)
           /\ (rpc = "wait" /\ rpc' = "done" /\ comparison # Nil) =>
                (rerr' = Nil /\ scoutingReport'.kind = "report")
      ]_vars

\* a report served from the cache
C17_Witness ==
    /\ rpc = "done"
    /\ scoutingReport # Nil
    /\ scoutingReport.CacheStatus.FromCache
    /\ \A b \in Branches : branch[b] = "idle"


\* the status the error codes table gives a failure of the required data
DocumentedStatus(root) ==
    CASE root \in {ErrTeamNotFound, ErrInsufficientData} -> 404
      [] root = ErrDeadlineExceeded -> 504
      [] OTHER -> 500

\* C19: at each of the compare, trends and scouting-report endpoints, a
\* request whose required data fails with TeamNotFound or InsufficientData is
\* answered 404, one whose deadline elapsed is answered 504, and 500 is
\* answered only for other errors.
C19_DocumentedStatusCodes ==
    Generated =>
        /\ Failed("comparison") =>
             CompareTeamsStatus(outcome["comparison"])
               = DocumentedStatus(outcome["comparison"].root)
        /\ \A b \in {"trends1", "trends2"} :
             Failed(b) => GetTeamTrendsStatus(outcome[b]) = DocumentedStatus(outcome[b].root)
        /\ Failed("comparison") =>
             GenerateScoutingReportStatus(rerr)
               = DocumentedStatus(outcome["comparison"].root)


\* what the goroutines write and the composition reads
results == <<comparison, trends1, trends2, metaCtx, errors>>

\* C21: on a cache miss the composition (error return, or report, cache set
\* and return) starts only after all four branches have finished; every
\* branch writes its result or error exactly once, holding the mutex, and no
\* branch writes after the composition has begun.
C21_BarrierBeforeCompose ==
    [][/\ (rpc = "wait" /\ rpc' = "done") => \A b \in Branches : branch[b] = "done"
       /\ (rpc = "wait" /\ <<scoutingReport, rerr, cache>>' # <<scoutingReport, rerr, cache>>) =>
            \A b \in Branches : branch[b] = "done"
       /\ results' # results =>
            /\ rpc = "wait" /\ rpc' = "wait"
            /\ \E b \in Branches :
                 /\ mu = b
                 /\ branch[b] = "locked"
                 /\ branch' = [branch EXCEPT ![b] = "done"]
       /\ \A b \in Branches :
            /\ branch[b] = "done" => branch'[b] = "done"
            /\ (branch[b] = "locked" /\ branch'[b] # "locked") =>
                 (mu = b /\ branch'[b] = "done")
       /\ rpc = "done" => results' = results
      ]_vars

\* a report composed from what each of the four branches stored
C21_Witness ==
    /\ Generated
    /\ comparison = outcome["comparison"]
    /\ trends1 = outcome["trends1"]
    /\ trends2 = Nil
    /\ Len(errors) = 1
    /\ metaCtx = outcome["meta"]
    /\ scoutingReport # Nil
    /\ ~scoutingReport.CacheStatus.FromCache


\* C22: for recent.matches >= 2 and a baseline win rate of 0 (likewise a
\* baseline K/D of 0) no division by zero decides an alert: the list returned
\* has no win-rate alert computed against a zero baseline win rate and no K/D
\* alert computed against a zero baseline K/D, whose change percentage would
\* be infinite or undefined.
C22_ZeroBaselineGuarded ==
    (AlertsCalled /\ call.recent.Matches >= 2) =>
        /\ call.overall.WinRate.n = 0 =>
             \A k \in 1..Len(ret) : ret[k].Type \notin {"POSITIVE_SHIFT", "NEGATIVE_SHIFT"}
        /\ call.overall.KDRatio.n = 0 =>
             \A k \in 1..Len(ret) : ret[k].Type # "PLAYSTYLE_CHANGE"

PlaystyleAlerts == {k \in 1..Len(ret) : ret[k].Type = "PLAYSTYLE_CHANGE"}

\* C23: for recent.matches >= 2 and a non-zero baseline K/D, a
\* PLAYSTYLE_CHANGE alert is emitted iff the absolute relative K/D change is
\* at least 10%, in either direction, and its severity is HIGH when the
\* absolute change is at least 25% and MEDIUM otherwise.
C23_PlaystyleChange ==
    (AlertsCalled /\ call.recent.Matches >= 2 /\ call.overall.KDRatio.n > 0) =>
        LET num == PctNum(call.recent.KDRatio, call.overall.KDRatio)
            den == PctDen(call.recent.KDRatio, call.overall.KDRatio)
        IN  /\ PlaystyleAlerts # {} <=> Abs(num) >= 10 * den
            /\ Cardinality(PlaystyleAlerts) <= 1
            /\ \A k \in PlaystyleAlerts :
                 ret[k].Severity = IF Abs(num) >= 25 * den THEN "HIGH" ELSE "MEDIUM"


(***************************************************************************)
(* Properties of the streak and of the reported window                     *)
(***************************************************************************)
\* C24: in every TeamStats returned, the streak type is the outcome of the
\* most recent of the series considered and the streak count is the length
\* of the longest run of that outcome starting at the most recent series, so
\* 1 <= count <= number of series considered.
C24_StreakIsLeadingRun ==
    Returned =>
        LET series == filteredSeries
            streak == stats.CurrentStreak
            first == series[1].won
        IN  /\ \A k \in 1..Len(series) : series[k].date <= series[1].date
            /\ streak.type = IF first THEN "win" ELSE "loss"
            /\ 1 <= streak.count /\ streak.count <= Len(series)
            /\ streak.count <= stats.MatchesPlayed
            /\ \A k \in 1..streak.count : series[k].won = first
            /\ streak.count < Len(series) => series[streak.count + 1].won # first

\* a loss streak of 2 that an earlier win ends, with a later loss behind it
C24_Witness ==
    /\ Returned
    /\ Len(filteredSeries) >= 4
    /\ ~filteredSeries[1].won /\ ~filteredSeries[2].won
    /\ filteredSeries[3].won /\ ~filteredSeries[4].won
    /\ stats.CurrentStreak = [type |-> "loss", count |-> 2]

\* C27: whenever GetTeamStatistics succeeds, the series it aggregated are
\* exactly the fetched series newer than the cutoff of the reported
\* ActualTimeWindow, also when no window of the chain reached 3 series and
\* the result of the widest candidate is kept.
C27_ReportedWindowProducedData ==
    (Returned /\ timeWindow \in TimeWindows) =>
        filteredSeries = SeriesInWindow(seriesHistory, stats.ActualTimeWindow)


(***************************************************************************)
(* Properties of the streak advantage and of the warnings                  *)
(***************************************************************************)
StreakAwards(advs) == {k \in 1..Len(advs) : advs[k] = <<"Stronger win streak">>}

\* C25: 'Stronger win streak' is awarded to a team iff its current streak is
\* a win streak and the other team's streak is not a win streak or is a win
\* streak with fewer wins; two equal win streaks or two loss streaks award
\* it to neither team, and it is never awarded to both or twice.
C25_StrongerWinStreak ==
    AdvantagesCalled =>
        LET s1 == call.report.Team1.Stats.CurrentStreak
            s2 == call.report.Team2.Stats.CurrentStreak
            a1 == StreakAwards(ret.Team1)
            a2 == StreakAwards(ret.Team2)
        IN  /\ a1 # {} <=> (s1.type = "win" /\ (s2.type # "win" \/ s2.count < s1.count))
            /\ a2 # {} <=> (s2.type = "win" /\ (s1.type # "win" \/ s1.count < s2.count))
            /\ (s1.type = "win" /\ s2.type = "win" /\ s1.count = s2.count) =>
                 (a1 = {} /\ a2 = {})
            /\ (s1.type = "loss" /\ s2.type = "loss") => (a1 = {} /\ a2 = {})
            /\ a1 = {} \/ a2 = {}
            /\ Cardinality(a1) <= 1 /\ Cardinality(a2) <= 1

\* a win streak of 1 against a loss streak of 3: awarded to the winning team
C25_Witness ==
    /\ AdvantagesCalled
    /\ call.report.Team1.Stats.CurrentStreak = [type |-> "loss", count |-> 3]
    /\ call.report.Team2.Stats.CurrentStreak = [type |-> "win", count |-> 1]
    /\ StreakAwards(ret.Team1) = {}
    /\ StreakAwards(ret.Team2) # {}


WarningsCalled == call.op = "GenerateWarnings"

DisparityWarning ==
    <<"Teams have significantly different match counts - consider with caution">>

Disparities == {k \in 1..Len(ret) : ret[k] = DisparityWarning}

ServedFromCache ==
    rpc = "done" /\ scoutingReport # Nil /\ scoutingReport.CacheStatus.FromCache

\* C28: a report served from the cache was generated for the same opponent,
\* own team, title, requested window and tournament scope as the request
\* that receives it; two requests that differ in any of these inputs never
\* share a cache entry.
C28_CacheEntryPerRequest ==
    /\ ServedFromCache =>
         \A c \in cachedFor : c.key = CacheKeyOf(request) => c.args = request
    /\ rpc = "done" =>
         \A c \in cachedFor : c.args # request => c.key # CacheKeyOf(request)


PriorityRank(priority) ==
    CASE priority = "HIGH"   -> 3
      [] priority = "MEDIUM" -> 2
      [] priority = "LOW"    -> 1

\* C29: the key-insight list is ordered by non-increasing priority: each
\* HIGH insight precedes each MEDIUM insight and each MEDIUM insight
\* precedes each LOW insight.
C29_InsightsByPriority ==
    InsightsCalled =>
        \A i \in 1..Len(ret), j \in 1..Len(ret) :
            i < j => PriorityRank(ret[i].Priority) >= PriorityRank(ret[j].Priority)

\* HIGH insights from both trend reports and from the win rate, then a
\* MEDIUM and a LOW one
C29_Witness ==
    /\ InsightsCalled
    /\ Len(ret) = 5
    /\ ret[1].Priority = "HIGH" /\ ret[1].Icon = "GREEN"
    /\ ret[2].Priority = "HIGH" /\ ret[2].Icon = "RED"
    /\ ret[3].Priority = "HIGH"
    /\ ret[3].Message[1] = "Opponent has win rate advantage (+%.0f%%)"
    /\ ret[4].Priority = "MEDIUM"
    /\ ret[5].Priority = "LOW"


\* C30: in every ComparisonReport returned, recentTrends is present only if
\* at least one team has a non-empty list of significant alerts, and
\* team1HasAlerts (team2HasAlerts) is true only if team1Alerts (team2Alerts)
\* is non-empty.
C30_RecentTrendsHaveAlerts ==
    (CompareReturned /\ ret.RecentTrends # Nil) =>
        LET rt == ret.RecentTrends
        IN  /\ Len(rt.Team1Alerts) > 0 \/ Len(rt.Team2Alerts) > 0
            /\ rt.Team1HasAlerts => Len(rt.Team1Alerts) > 0
            /\ rt.Team2HasAlerts => Len(rt.Team2Alerts) > 0

====
